---- MODULE Spec2Model ----
(***************************************************************************)
(* A model of MockBleManager (src/src/BleManagerMock.ts): the in-memory    *)
(* BLE central used as a test double.  The state is the manager's private  *)
(* fields, the timers and promises it has outstanding, and a record of the *)
(* callbacks the last operation invoked.  JavaScript Maps are functions    *)
(* whose DOMAIN is the set of present keys; arrays are sequences held in a *)
(* heap (arrays), because subscriptions capture array references.           *)
(***************************************************************************)
EXTENDS Integers, Sequences, FiniteSets, TLC

\* ---------------------------------------------------------------- bounds
MaxSubs == 2        \* listener registrations in one behaviour of SpecSub
MaxWatchers == 2    \* listener registrations in one behaviour of the other specifications
MaxPending == 1     \* operations waiting on a delay at one time
MaxInjected == 2    \* read and write error and delay records held at one time

\* ------------------------------------------------------ program constants
DefaultMTU == 517
DefaultMaxMTU == 512
DefaultDiscoveryInterval == 800

Null == "null"

States == {"Unknown", "Resetting", "Unsupported", "Unauthorized", "PoweredOff", "PoweredOn"}

VARIABLES
    currentState,             \* State
    stateListeners,           \* array of listeners
    isScanning, scanListener,
    scanInterval,             \* << >> when null, <<period>> when a tick timer is armed
    scanErrorSimulation,
    scanOptions,              \* allowDuplicates
    scanUUIDs,                \* the UUID filter of the last scan; <<>> for null
    discoveryInterval,
    discoveredDevices,        \* insertion-ordered Map: sequence of device records
    connectedDevices,         \* insertion-ordered Set: sequence of device ids
    connectionListeners,      \* Map deviceId -> array reference
    connectionDelays, connectionErrors, disconnectionErrors,
    mtuListeners,             \* Map deviceId -> array reference
    deviceMaxMTUs,
    discoveredServices,       \* Map deviceId -> Service[]
    monitoredCharacteristics, \* Map key -> array reference
    characteristicValues,     \* Map key -> string
    notificationIntervals,    \* Map key -> timer handle
    writeListeners,           \* Map key -> listener
    readDelays, readErrors,
    writeWithResponseDelays, writeWithoutResponseDelays,
    writeWithResponseErrors, writeWithoutResponseErrors,
    serviceMetadata, descriptorValues, descriptorErrors,
    pendingOps,               \* reads and writes waiting on their delay: [op, key, err, val]
    restoreStateIdentifier,   \* constructor option
    restoreStateFunction,     \* constructor option: whether a callback was given
    restoreImmediate,         \* whether the setImmediate of the constructor is armed
    restoredStateStore,       \* module-level Map identifier -> snapshot
    arrays,                   \* heap: array reference -> sequence of listeners
    intervalTimers,           \* armed notification intervals: key -> how many
    replayTimers,             \* armed setTimeout(..., 0) replays of monitor registration;
                              \* early: armed before the interval timer of its key
    pendingConnects,          \* connectToDevice calls waiting on their delay
    pendingDiscoveries,       \* discovery calls awaiting device.services()
    subs,                     \* every subscription handed out, in order of registration
    discoveryRunSince,        \* history: devices with a discovery started since their
                              \* last disconnection
    discoveryDoneSince,       \* history: devices with a discovery completed since they
                              \* last entered the connected set
    scanEnded,                \* history: the last operation ended a scan
    stoppedListeners,         \* history: the listeners of the scans ended by stopDeviceScan
    registeredAtDestroy,      \* history: the listeners registered before the last destroy
    latestCalled,             \* history: key -> the value of the latest write or set call
                              \* that got as far as the value store
    storeOrder,               \* history, kept under SpecOrder: the values stored by
                              \* setCharacteristicValue, in the order of the calls
    lastDelivered,            \* history, kept under SpecOrder: monitor listener -> the
                              \* place in storeOrder of the newest value it was given
    fired,                    \* callbacks invoked by the last operation, in order
    result                    \* the last operation and how it ended

stateVars == <<currentState, stateListeners>>
scanVars == <<isScanning, scanListener, scanInterval, scanErrorSimulation, scanOptions, scanUUIDs,
              discoveryInterval>>
injectionVars == <<readDelays, readErrors, writeWithResponseDelays,
                   writeWithoutResponseDelays, writeWithResponseErrors,
                   writeWithoutResponseErrors, serviceMetadata, descriptorValues,
                   descriptorErrors>>
ioVars == <<injectionVars, pendingOps>>
registryVars == <<discoveredDevices>>
connVars == <<connectedDevices, connectionDelays, connectionErrors, disconnectionErrors,
              deviceMaxMTUs, discoveredServices, pendingConnects, pendingDiscoveries>>
listenerVars == <<connectionListeners, mtuListeners, monitoredCharacteristics, arrays, subs>>
charVars == <<characteristicValues, notificationIntervals, writeListeners,
              intervalTimers, replayTimers>>
restoreOptions == <<restoreStateIdentifier, restoreStateFunction, restoreImmediate>>
restoreVars == <<restoreOptions, restoredStateStore>>
vars == <<stateVars, scanVars, registryVars, connVars, listenerVars, charVars, ioVars,
          restoreVars, discoveryRunSince, discoveryDoneSince, scanEnded, stoppedListeners,
          registeredAtDestroy, latestCalled, storeOrder, lastDelivered, fired, result>>

\* ------------------------------------------------------------ Map helpers
EmptyMap == <<>>
Has(m, k) == k \in DOMAIN m
Put(m, k, v) == [x \in (DOMAIN m) \cup {k} |-> IF x = k THEN v ELSE m[x]]
Delete(m, k) == [x \in (DOMAIN m) \ {k} |-> m[x]]
Range(f) == {f[x] : x \in DOMAIN f}
Filter(seq, l) == SelectSeq(seq, LAMBDA x : x # l)
Min(a, b) == IF a < b THEN a ELSE b

\* discoveredDevices: a Map that keeps insertion order
DevIds(reg) == {reg[i].id : i \in DOMAIN reg}
DevHas(reg, d) == d \in DevIds(reg)
DevGet(reg, d) == reg[CHOOSE i \in DOMAIN reg : reg[i].id = d]
DevSet(reg, d, rec) ==
    IF DevHas(reg, d)
    THEN [i \in DOMAIN reg |-> IF reg[i].id = d THEN rec ELSE reg[i]]
    ELSE Append(reg, rec)
DevDelete(reg, d) == SelectSeq(reg, LAMBDA r : r.id # d)

\* connectedDevices: a Set that keeps insertion order
SetHas(s, d) == \E i \in DOMAIN s : s[i] = d
SetAdd(s, d) == IF SetHas(s, d) THEN s ELSE Append(s, d)
SetDelete(s, d) == SelectSeq(s, LAMBDA x : x # d)

getCharacteristicKey(deviceId, serviceUUID, characteristicUUID) ==
    deviceId \o "|" \o serviceUUID \o "|" \o characteristicUUID

getDescriptorKey(deviceId, serviceUUID, characteristicUUID, descriptorUUID) ==
    deviceId \o "|" \o serviceUUID \o "|" \o characteristicUUID \o "|" \o descriptorUUID

\* ------------------------------------------------------------- the heap
NArr == 2 * (MaxSubs + MaxWatchers) + 2
FreshArray(arrs) == CHOOSE a \in 1..NArr : a \notin DOMAIN arrs
\* references the program still holds: Map entries and subscription closures
Refs(cl, ml, mc, sb) ==
    Range(cl) \cup Range(ml) \cup Range(mc) \cup {sb[i].arr : i \in DOMAIN sb}
Collect(arrs, cl, ml, mc, sb) ==
    [a \in (DOMAIN arrs) \cap Refs(cl, ml, mc, sb) |-> arrs[a]]

\* `if (!map.has(key)) map.set(key, []); listeners = map.get(key); listeners.push(l)`
RegisterListener(map, arrs, k, l) ==
    LET a == IF Has(map, k) THEN map[k] ELSE FreshArray(arrs)
        old == IF Has(map, k) THEN arrs[a] ELSE <<>>
    IN  [map |-> Put(map, k, a), arrays |-> Put(arrs, a, Append(old, l)), arr |-> a]

\* the remove closure shared by the monitor, connection and MTU subscriptions:
\* it filters the array captured at registration and stores the result
RemoveListener(map, arrs, k, captured, l) ==
    LET updatedListeners == Filter(arrs[captured], l)
    IN  IF Len(updatedListeners) = 0
        THEN [map |-> Delete(map, k), arrays |-> arrs, emptied |-> TRUE]
        ELSE LET a == FreshArray(arrs)
             IN  [map |-> Put(map, k, a), arrays |-> Put(arrs, a, updatedListeners),
                  emptied |-> FALSE]

\* `map.get(key) || []`
ListenersOf(map, arrs, k) == IF Has(map, k) THEN arrs[map[k]] ELSE <<>>

NewSub(kind, key, arr) == [kind |-> kind, key |-> key, arr |-> arr, removed |-> FALSE]
\* the bound a specification puts on the registrations of one behaviour
CanSubscribe(max) == Len(subs) < max

Call(kind, l, err, val) == [kind |-> kind, l |-> l, err |-> err, val |-> val]
Calls(kind, listeners, err, val) ==
    [i \in DOMAIN listeners |-> Call(kind, listeners[i], err, val)]
Outcome(op, arg, status, err) == [op |-> op, arg |-> arg, status |-> status, err |-> err]
\* how a call that negotiates an MTU ended: requested is the MTU it asked for
MTUOutcome(op, d, requested) ==
    [op |-> op, arg |-> d, status |-> "resolved", err |-> Null, requested |-> requested]

\* ------------------------------------------------------------------ Init
\* restoredStateStore belongs to the module, not to the manager: it is empty or
\* holds the snapshot an earlier manager left under the identifier
StoresAtConstruction ==
    {EmptyMap, [rid |-> <<[id |-> "d0", isConnectable |-> TRUE, mtu |-> DefaultMTU]>>]}

Init ==
    /\ currentState = "PoweredOn"
    /\ stateListeners = <<>>
    /\ isScanning = FALSE
    /\ scanListener = 0
    /\ scanInterval = <<>>
    /\ scanErrorSimulation = Null
    /\ scanOptions = FALSE
    /\ scanUUIDs = <<>>
    /\ discoveryInterval = DefaultDiscoveryInterval
    /\ discoveredDevices = <<>>
    /\ connectedDevices = <<>>
    /\ connectionListeners = EmptyMap
    /\ connectionDelays = EmptyMap
    /\ connectionErrors = EmptyMap
    /\ disconnectionErrors = EmptyMap
    /\ mtuListeners = EmptyMap
    /\ deviceMaxMTUs = EmptyMap
    /\ discoveredServices = EmptyMap
    /\ monitoredCharacteristics = EmptyMap
    /\ characteristicValues = EmptyMap
    /\ notificationIntervals = EmptyMap
    /\ writeListeners = EmptyMap
    /\ readDelays = EmptyMap
    /\ readErrors = EmptyMap
    /\ writeWithResponseDelays = EmptyMap
    /\ writeWithoutResponseDelays = EmptyMap
    /\ writeWithResponseErrors = EmptyMap
    /\ writeWithoutResponseErrors = EmptyMap
    /\ serviceMetadata = EmptyMap
    /\ descriptorValues = EmptyMap
    /\ descriptorErrors = EmptyMap
    /\ pendingOps = {}
    /\ restoreStateIdentifier \in {Null, "rid"}
    /\ restoreStateFunction \in BOOLEAN
    /\ restoreImmediate = (restoreStateIdentifier # Null /\ restoreStateFunction)
    /\ restoredStateStore \in StoresAtConstruction
    /\ arrays = EmptyMap
    /\ intervalTimers = EmptyMap
    /\ replayTimers = {}
    /\ pendingConnects = {}
    /\ pendingDiscoveries = {}
    /\ subs = <<>>
    /\ discoveryRunSince = {}
    /\ discoveryDoneSince = {}
    /\ scanEnded = FALSE
    /\ stoppedListeners = {}
    /\ registeredAtDestroy = {}
    /\ latestCalled = EmptyMap
    /\ storeOrder = <<>>
    /\ lastDelivered = EmptyMap
    /\ fired = <<>>
    /\ result = Outcome("constructor", Null, "returned", Null)

\* ------------------------------------------------------- device registry
\* object identity of device records: connectToDevice mutates the object it
\* fetched before its delay, which may no longer be the registered one
\* (an identity is free for the new record of d once nothing but the record it
\* replaces carries it)
ObjsInUse(d) ==
    {discoveredDevices[i].obj : i \in {j \in DOMAIN discoveredDevices :
                                          discoveredDevices[j].id # d}}
        \cup {p.obj : p \in pendingConnects}
FreshObj(d) == CHOOSE n \in 1..(Cardinality(ObjsInUse(d)) + 1) : n \notin ObjsInUse(d)

Device(d, connectable, mtu, hasServices, uuids, obj) ==
    [id |-> d, isConnectable |-> connectable, mtu |-> mtu,
     hasServices |-> hasServices, serviceUUIDs |-> uuids, obj |-> obj]

\* `{ ...device! }`: a copy carries the fields, not the identity
EmptyObject == [id |-> "undefined", isConnectable |-> FALSE, mtu |-> 0]
CopyOf(reg, d) ==
    IF DevHas(reg, d)
    THEN [id |-> d, isConnectable |-> DevGet(reg, d).isConnectable, mtu |-> DevGet(reg, d).mtu]
    ELSE EmptyObject

saveRestorationState(connected, reg) ==
    IF restoreStateIdentifier = Null
    THEN restoredStateStore
    ELSE Put(restoredStateStore, restoreStateIdentifier,
             [i \in DOMAIN connected |-> CopyOf(reg, connected[i])])

\* a setImmediate callback runs once
ImmediateRearmed == TRUE

ImmediateAfterFiring == FALSE

\* the setImmediate callback of the constructor: the callback given as
\* restoreStateFunction gets the snapshot stored under the identifier, or null
restoreState ==
    /\ restoreImmediate
    /\ restoreImmediate' = ImmediateAfterFiring
    /\ fired' = <<Call("restore", 0, Null,
                       IF Has(restoredStateStore, restoreStateIdentifier)
                       THEN restoredStateStore[restoreStateIdentifier] ELSE Null)>>
    /\ result' = Outcome("constructor.setImmediate", Null, "returned", Null)
    /\ UNCHANGED <<stateVars, scanVars, registryVars, connVars, listenerVars, charVars,
                   ioVars, restoreStateIdentifier, restoreStateFunction,
                   restoredStateStore>>

\* mtu = 0 stands for an unspecified mtu (`device.mtu || 517`); hasServices
\* tells whether `services` was given, uuids being then the services' uuids
addMockDevice(d, connectable, mtu, hasServices, uuids) ==
    /\ serviceMetadata' = IF hasServices THEN Put(serviceMetadata, d, uuids)
                          ELSE serviceMetadata
    /\ discoveredDevices' = DevSet(discoveredDevices, d,
            Device(d, connectable, IF mtu = 0 THEN DefaultMTU ELSE mtu,
                   hasServices, uuids, FreshObj(d)))
    /\ fired' = <<>>
    /\ result' = Outcome("addMockDevice", d, "returned", Null)
    /\ UNCHANGED <<stateVars, scanVars, connVars, listenerVars, charVars, restoreVars,
                   readDelays, readErrors, writeWithResponseDelays,
                   writeWithoutResponseDelays, writeWithResponseErrors,
                   writeWithoutResponseErrors, descriptorValues, descriptorErrors, pendingOps>>

removeMockDevice(d) ==
    /\ discoveredDevices' = DevDelete(discoveredDevices, d)
    /\ serviceMetadata' = Delete(serviceMetadata, d)
    /\ fired' = <<>>
    /\ result' = Outcome("removeMockDevice", d, "returned", Null)
    /\ UNCHANGED <<stateVars, scanVars, connVars, listenerVars, charVars, restoreVars,
                   readDelays, readErrors, writeWithResponseDelays,
                   writeWithoutResponseDelays, writeWithResponseErrors,
                   writeWithoutResponseErrors, descriptorValues, descriptorErrors, pendingOps>>

\* ---------------------------------------------------- connection lifecycle
isDeviceConnectedToAny(d) == connectedDevices # <<>>

isDeviceConnected(d) == SetHas(connectedDevices, d)

notifyConnectionListeners(d, err, dev) ==
    Calls("connection", ListenersOf(connectionListeners, arrays, d), err, dev)

notifyMTUChange(d, mtu) ==
    Calls("mtu", ListenersOf(mtuListeners, arrays, d), Null, mtu)

\* `this.deviceMaxMTUs.get(deviceIdentifier) || 512`
MaxMTUOf(d) ==
    IF Has(deviceMaxMTUs, d) /\ deviceMaxMTUs[d] # 0 THEN deviceMaxMTUs[d] ELSE DefaultMaxMTU

\* `device.mtu = actualMTU` on the object with identity obj, if still registered
MutateMtu(reg, obj, mtu) ==
    [i \in DOMAIN reg |-> IF reg[i].obj = obj THEN [reg[i] EXCEPT !.mtu = mtu] ELSE reg[i]]

\* connectToDevice without its isConnectable check
ConnectRejectionSkipsConnectable(d) ==
    IF currentState # "PoweredOn" THEN "Bluetooth is not powered on"
    ELSE IF ~DevHas(discoveredDevices, d) THEN "Device not found"
    ELSE IF Has(connectionErrors, d) THEN connectionErrors[d]
    ELSE Null

\* connectToDevice without its look at the connection-error records
ConnectRejectionSkipsRecord(d) ==
    IF currentState # "PoweredOn" THEN "Bluetooth is not powered on"
    ELSE IF ~DevHas(discoveredDevices, d) THEN "Device not found"
    ELSE IF DevGet(discoveredDevices, d).isConnectable = FALSE THEN "Device is not connectable"
    ELSE Null

\* the checks connectToDevice makes before it does anything, in order;
\* Null when none fails
ConnectRejection(d) ==
    IF currentState # "PoweredOn" THEN "Bluetooth is not powered on"
    ELSE IF ~DevHas(discoveredDevices, d) THEN "Device not found"
    ELSE IF DevGet(discoveredDevices, d).isConnectable = FALSE THEN "Device is not connectable"
    ELSE IF Has(connectionErrors, d) THEN connectionErrors[d]
    ELSE Null

\* history: whether the adapter is on and d is registered, connectable and free
\* of a connection-error record, recorded by a call that starts waiting
CallTimeOK(d) ==
    /\ currentState = "PoweredOn"
    /\ DevHas(discoveredDevices, d)
    /\ DevGet(discoveredDevices, d).isConnectable # FALSE
    /\ ~Has(connectionErrors, d)

\* `this.connectionDelays.get(deviceIdentifier) || 0`
ConnectionDelayOf(d) == IF Has(connectionDelays, d) THEN connectionDelays[d] ELSE 0

\* connectToDevice after its delay: MTU negotiation, connected set, listeners, snapshot
ConnectFinish(op, d, requestMTU, obj) ==
    LET negotiate == requestMTU # 0
        actualMTU == Min(requestMTU, MaxMTUOf(d))
        reg1 == IF negotiate THEN MutateMtu(discoveredDevices, obj, actualMTU)
                ELSE discoveredDevices
        connected1 == SetAdd(connectedDevices, d)
    IN  /\ discoveredDevices' = reg1
        /\ connectedDevices' = connected1
        /\ fired' = (IF negotiate THEN notifyMTUChange(d, actualMTU) ELSE <<>>)
                        \o notifyConnectionListeners(d, Null, d)
        /\ restoredStateStore' = saveRestorationState(connected1, reg1)
        /\ result' = MTUOutcome(op, d, requestMTU)

connectToDevice(d, requestMTU) ==
    /\ IF ConnectRejection(d) # Null
       THEN /\ result' = Outcome("connectToDevice", d, "rejected", ConnectRejection(d))
            /\ fired' = <<>>
            /\ UNCHANGED <<discoveredDevices, connectedDevices, restoredStateStore,
                           pendingConnects>>
       ELSE IF ConnectionDelayOf(d) > 0
       THEN /\ Cardinality(pendingConnects) < MaxPending
            /\ pendingConnects' = pendingConnects \cup
                   {[d |-> d, requestMTU |-> requestMTU,
                     obj |-> DevGet(discoveredDevices, d).obj,
                     callOK |-> CallTimeOK(d)]}
            /\ result' = Outcome("connectToDevice", d, "pending", Null)
            /\ fired' = <<>>
            /\ UNCHANGED <<discoveredDevices, connectedDevices, restoredStateStore>>
       ELSE /\ ConnectFinish("connectToDevice", d, requestMTU,
                             DevGet(discoveredDevices, d).obj)
            /\ UNCHANGED pendingConnects
    /\ UNCHANGED <<stateVars, scanVars, connectionDelays, connectionErrors,
                   disconnectionErrors, deviceMaxMTUs, discoveredServices,
                   pendingDiscoveries, listenerVars, charVars, restoreOptions, ioVars>>

\* the continuation of a connectToDevice whose delay has elapsed
connectToDeviceResume(p) ==
    /\ p \in pendingConnects
    /\ pendingConnects' = pendingConnects \ {p}
    /\ ConnectFinish("connectToDevice.resume", p.d, p.requestMTU, p.obj)
    /\ UNCHANGED <<stateVars, scanVars, connectionDelays, connectionErrors,
                   disconnectionErrors, deviceMaxMTUs, discoveredServices,
                   pendingDiscoveries, listenerVars, charVars, restoreOptions, ioVars>>

\* a disconnection emptying the whole cache
ServicesAfterDisconnectionCleared(d) == EmptyMap

\* `this.discoveredServices.delete(deviceIdentifier)`
ServicesAfterDisconnection(d) == Delete(discoveredServices, d)

cancelDeviceConnection(d) ==
    /\ IF ~DevHas(discoveredDevices, d)
       THEN /\ result' = Outcome("cancelDeviceConnection", d, "rejected", "Device not found")
            /\ fired' = <<>>
            /\ UNCHANGED <<connectedDevices, discoveredServices, restoredStateStore>>
       ELSE IF ~SetHas(connectedDevices, d)
       THEN /\ result' = Outcome("cancelDeviceConnection", d, "rejected",
                                 "Device is not connected")
            /\ fired' = <<>>
            /\ UNCHANGED <<connectedDevices, discoveredServices, restoredStateStore>>
       ELSE IF Has(disconnectionErrors, d)
       THEN /\ result' = Outcome("cancelDeviceConnection", d, "rejected",
                                 disconnectionErrors[d])
            /\ fired' = notifyConnectionListeners(d, disconnectionErrors[d], d)
            /\ UNCHANGED <<connectedDevices, discoveredServices, restoredStateStore>>
       ELSE /\ connectedDevices' = SetDelete(connectedDevices, d)
            /\ fired' = notifyConnectionListeners(d, Null, d)
            /\ discoveredServices' = ServicesAfterDisconnection(d)
            /\ restoredStateStore' =
                   saveRestorationState(SetDelete(connectedDevices, d), discoveredDevices)
            /\ result' = Outcome("cancelDeviceConnection", d, "resolved", Null)
    /\ UNCHANGED <<stateVars, scanVars, registryVars, connectionDelays, connectionErrors,
                   disconnectionErrors, deviceMaxMTUs, pendingConnects,
                   pendingDiscoveries, listenerVars, charVars, restoreOptions, ioVars>>

\* the state change of simulateDeviceDisconnection, for the callers that loop over it
\* error = Null stands for an omitted error
DisconnectionErrorAsGiven(error) == error

DisconnectionError(error) == IF error # Null THEN error ELSE "Simulated disconnection"

simulateDeviceDisconnection(d, error) ==
    /\ IF SetHas(connectedDevices, d)
       THEN /\ connectedDevices' = SetDelete(connectedDevices, d)
            /\ discoveredServices' = ServicesAfterDisconnection(d)
            /\ fired' = notifyConnectionListeners(d, DisconnectionError(error),
                            IF DevHas(discoveredDevices, d) THEN d ELSE Null)
       ELSE /\ fired' = <<>>
            /\ UNCHANGED <<connectedDevices, discoveredServices>>
    /\ result' = Outcome("simulateDeviceDisconnection", [d |-> d, error |-> error],
                         "returned", Null)
    /\ UNCHANGED <<stateVars, scanVars, registryVars, connectionDelays, connectionErrors,
                   disconnectionErrors, deviceMaxMTUs, pendingConnects,
                   pendingDiscoveries, listenerVars, charVars, restoreVars, ioVars>>

simulateConnectionError(d, error) ==
    /\ connectionErrors' = Put(connectionErrors, d, error)
    /\ fired' = <<>>
    /\ result' = Outcome("simulateConnectionError", d, "returned", Null)
    /\ UNCHANGED <<stateVars, scanVars, registryVars, connectedDevices, connectionDelays,
                   disconnectionErrors, deviceMaxMTUs, discoveredServices,
                   pendingConnects, pendingDiscoveries, listenerVars, charVars,
                   restoreVars, ioVars>>

clearConnectionError(d) ==
    /\ connectionErrors' = Delete(connectionErrors, d)
    /\ fired' = <<>>
    /\ result' = Outcome("clearConnectionError", d, "returned", Null)
    /\ UNCHANGED <<stateVars, scanVars, registryVars, connectedDevices, connectionDelays,
                   disconnectionErrors, deviceMaxMTUs, discoveredServices,
                   pendingConnects, pendingDiscoveries, listenerVars, charVars,
                   restoreVars, ioVars>>

simulateDisconnectionError(d, error) ==
    /\ disconnectionErrors' = Put(disconnectionErrors, d, error)
    /\ fired' = <<>>
    /\ result' = Outcome("simulateDisconnectionError", d, "returned", Null)
    /\ UNCHANGED <<stateVars, scanVars, registryVars, connectedDevices, connectionDelays,
                   connectionErrors, deviceMaxMTUs, discoveredServices,
                   pendingConnects, pendingDiscoveries, listenerVars, charVars,
                   restoreVars, ioVars>>

clearDisconnectionError(d) ==
    /\ disconnectionErrors' = Delete(disconnectionErrors, d)
    /\ fired' = <<>>
    /\ result' = Outcome("clearDisconnectionError", d, "returned", Null)
    /\ UNCHANGED <<stateVars, scanVars, registryVars, connectedDevices, connectionDelays,
                   connectionErrors, deviceMaxMTUs, discoveredServices,
                   pendingConnects, pendingDiscoveries, listenerVars, charVars,
                   restoreVars, ioVars>>

setConnectionDelay(d, delayMs) ==
    /\ connectionDelays' = Put(connectionDelays, d, delayMs)
    /\ fired' = <<>>
    /\ result' = Outcome("setConnectionDelay", d, "returned", Null)
    /\ UNCHANGED <<stateVars, scanVars, registryVars, connectedDevices, connectionErrors,
                   disconnectionErrors, deviceMaxMTUs, discoveredServices,
                   pendingConnects, pendingDiscoveries, listenerVars, charVars,
                   restoreVars, ioVars>>

setDeviceMaxMTU(d, maxMTU) ==
    /\ deviceMaxMTUs' = Put(deviceMaxMTUs, d, maxMTU)
    /\ fired' = <<>>
    /\ result' = Outcome("setDeviceMaxMTU", d, "returned", Null)
    /\ UNCHANGED <<stateVars, scanVars, registryVars, connectedDevices, connectionDelays,
                   connectionErrors, disconnectionErrors, discoveredServices,
                   pendingConnects, pendingDiscoveries, listenerVars, charVars,
                   restoreVars, ioVars>>

\* ------------------------------------------------------------ MTU
requestMTUForDevice(d, mtu) ==
    /\ IF ~isDeviceConnected(d)
       THEN /\ result' = Outcome("requestMTUForDevice", d, "rejected", "Device not connected")
            /\ fired' = <<>>
            /\ UNCHANGED discoveredDevices
       ELSE IF ~DevHas(discoveredDevices, d)
       THEN /\ result' = Outcome("requestMTUForDevice", d, "rejected", "Device not found")
            /\ fired' = <<>>
            /\ UNCHANGED discoveredDevices
       ELSE /\ discoveredDevices' = MutateMtu(discoveredDevices,
                   DevGet(discoveredDevices, d).obj, Min(mtu, MaxMTUOf(d)))
            /\ fired' = notifyMTUChange(d, Min(mtu, MaxMTUOf(d)))
            /\ result' = MTUOutcome("requestMTUForDevice", d, mtu)
    /\ UNCHANGED <<stateVars, scanVars, connVars, listenerVars, charVars, restoreVars, ioVars>>

\* ------------------------------------------------------ subscriptions
\* A listener is named by the index of its subscription in subs: every
\* registration passes a function of its own.
onMTUChanged(d) ==
    LET l == Len(subs) + 1
        r == RegisterListener(mtuListeners, arrays, d, l)
    IN  /\ mtuListeners' = r.map
        /\ arrays' = r.arrays
        /\ subs' = Append(subs, NewSub("mtu", d, r.arr))
        /\ fired' = <<>>
        /\ result' = Outcome("onMTUChanged", d, "returned", Null)
        /\ UNCHANGED <<stateVars, scanVars, registryVars, connVars, connectionListeners,
                       monitoredCharacteristics, charVars, restoreVars, ioVars>>

onDeviceDisconnected(d) ==
    LET l == Len(subs) + 1
        r == RegisterListener(connectionListeners, arrays, d, l)
    IN  /\ connectionListeners' = r.map
        /\ arrays' = r.arrays
        /\ subs' = Append(subs, NewSub("connection", d, r.arr))
        /\ fired' = <<>>
        /\ result' = Outcome("onDeviceDisconnected", d, "returned", Null)
        /\ UNCHANGED <<stateVars, scanVars, registryVars, connVars, mtuListeners,
                       monitoredCharacteristics, charVars, restoreVars, ioVars>>

onStateChange(emitCurrentState) ==
    LET l == Len(subs) + 1
    IN  /\ stateListeners' = Append(stateListeners, l)
        /\ subs' = Append(subs, NewSub("state", Null, 0))
        /\ fired' = IF emitCurrentState THEN <<Call("state", l, Null, currentState)>>
                    ELSE <<>>
        /\ result' = Outcome("onStateChange", emitCurrentState, "returned", Null)
        /\ UNCHANGED <<currentState, scanVars, registryVars, connVars, connectionListeners,
                       mtuListeners, monitoredCharacteristics, arrays, charVars,
                       restoreVars, ioVars>>

onCharacteristicWrite(d, s, c) ==
    LET l == Len(subs) + 1
        key == getCharacteristicKey(d, s, c)
    IN  /\ writeListeners' = Put(writeListeners, key, l)
        /\ subs' = Append(subs, NewSub("write", key, 0))
        /\ fired' = <<>>
        /\ result' = Outcome("onCharacteristicWrite", key, "returned", Null)
        /\ UNCHANGED <<stateVars, scanVars, registryVars, connVars, connectionListeners,
                       mtuListeners, monitoredCharacteristics, arrays,
                       characteristicValues, notificationIntervals, intervalTimers,
                       replayTimers, restoreVars, ioVars>>

\* `this.characteristicValues.get(key) || null`, with `if (value)`: the empty
\* string counts as no value
CurrentValue(key) ==
    IF Has(characteristicValues, key) /\ characteristicValues[key] # ""
    THEN characteristicValues[key] ELSE Null

monitorCharacteristicForDevice(d, s, c) ==
    LET l == Len(subs) + 1
        key == getCharacteristicKey(d, s, c)
        r == RegisterListener(monitoredCharacteristics, arrays, key, l)
    IN  /\ IF ~isDeviceConnected(d)
           THEN /\ result' = Outcome("monitorCharacteristicForDevice", key, "threw",
                                     "Device is not connected")
                /\ UNCHANGED <<monitoredCharacteristics, arrays, subs, replayTimers>>
           ELSE /\ monitoredCharacteristics' = r.map
                /\ arrays' = r.arrays
                /\ subs' = Append(subs, NewSub("monitor", key, r.arr))
                /\ replayTimers' =
                       IF CurrentValue(key) # Null
                       THEN replayTimers \cup
                                {[l |-> l, val |-> CurrentValue(key), early |-> FALSE]}
                       ELSE replayTimers
                /\ result' = Outcome("monitorCharacteristicForDevice", key, "returned", Null)
        /\ fired' = <<>>
        /\ UNCHANGED <<stateVars, scanVars, registryVars, connVars, connectionListeners,
                       mtuListeners, characteristicValues, notificationIntervals,
                       writeListeners, intervalTimers, restoreVars, ioVars>>

\* the setTimeout(..., 0) of monitorCharacteristicForDevice fires
monitorReplay(t) ==
    /\ t \in replayTimers
    /\ replayTimers' = replayTimers \ {t}
    /\ fired' = <<Call("monitor", t.l, Null, t.val)>>
    /\ result' = Outcome("monitorCharacteristicForDevice.replay", Null, "returned", Null)
    /\ UNCHANGED <<stateVars, scanVars, registryVars, connVars, listenerVars,
                   characteristicValues, notificationIntervals, writeListeners,
                   intervalTimers, restoreVars, ioVars>>

\* stopSimulatedNotificationsForKey forgetting the handle without clearing it
StopTimersLeavesArmed(ni, it, key) ==
    IF Has(ni, key) THEN [ni |-> Delete(ni, key), it |-> it] ELSE [ni |-> ni, it |-> it]

\* clearInterval on the handle the Map holds, and the Map entry
StopTimers(ni, it, key) ==
    IF Has(ni, key)
    THEN [ni |-> Delete(ni, key),
          it |-> IF it[key] = 1 THEN Delete(it, key) ELSE Put(it, key, it[key] - 1)]
    ELSE [ni |-> ni, it |-> it]

\* subscription.remove() of the subscription subs[i]
remove(i) ==
    LET sub == subs[i]
        subs1 == [subs EXCEPT ![i].removed = TRUE]
        r == CASE sub.kind = "monitor" ->
                    RemoveListener(monitoredCharacteristics, arrays, sub.key, sub.arr, i)
               [] sub.kind = "connection" ->
                    RemoveListener(connectionListeners, arrays, sub.key, sub.arr, i)
               [] sub.kind = "mtu" ->
                    RemoveListener(mtuListeners, arrays, sub.key, sub.arr, i)
               [] OTHER -> [map |-> EmptyMap, arrays |-> arrays, emptied |-> FALSE]
        mc1 == IF sub.kind = "monitor" THEN r.map ELSE monitoredCharacteristics
        cl1 == IF sub.kind = "connection" THEN r.map ELSE connectionListeners
        ml1 == IF sub.kind = "mtu" THEN r.map ELSE mtuListeners
        t == IF sub.kind = "monitor" /\ r.emptied
             THEN StopTimers(notificationIntervals, intervalTimers, sub.key)
             ELSE [ni |-> notificationIntervals, it |-> intervalTimers]
    IN  /\ i \in DOMAIN subs
        /\ sub.kind # "scan"
        /\ monitoredCharacteristics' = mc1
        /\ connectionListeners' = cl1
        /\ mtuListeners' = ml1
        /\ arrays' = Collect(r.arrays, cl1, ml1, mc1, subs1)
        /\ subs' = subs1
        /\ notificationIntervals' = t.ni
        /\ intervalTimers' = t.it
        /\ stateListeners' = IF sub.kind = "state" THEN Filter(stateListeners, i)
                             ELSE stateListeners
        /\ writeListeners' = IF sub.kind = "write" THEN Delete(writeListeners, sub.key)
                             ELSE writeListeners
        /\ fired' = <<>>
        /\ result' = Outcome("remove", i, "returned", Null)
        /\ UNCHANGED <<currentState, scanVars, registryVars, connVars,
                       characteristicValues, replayTimers, restoreVars, ioVars>>

\* ------------------------------------------------- characteristic values
notifyCharacteristicChange(values, key) ==
    LET value == IF Has(values, key) /\ values[key] # "" THEN values[key] ELSE Null
        listeners == ListenersOf(monitoredCharacteristics, arrays, key)
    IN  IF value # Null /\ Len(listeners) > 0
        THEN Calls("monitor", listeners, Null, value)
        ELSE <<>>

setCharacteristicValue(d, s, c, value, notify) ==
    LET key == getCharacteristicKey(d, s, c)
        values1 == Put(characteristicValues, key, value)
    IN  /\ characteristicValues' = values1
        /\ fired' = IF notify THEN notifyCharacteristicChange(values1, key) ELSE <<>>
        /\ result' = [op |-> "setCharacteristicValue", arg |-> key, status |-> "returned",
                       err |-> Null, value |-> value, notify |-> notify]
        /\ UNCHANGED <<stateVars, scanVars, registryVars, connVars, listenerVars,
                       notificationIntervals, writeListeners, intervalTimers,
                       replayTimers, restoreVars, ioVars>>

startSimulatedNotifications(d, s, c) ==
    LET key == getCharacteristicKey(d, s, c)
        t == StopTimers(notificationIntervals, intervalTimers, key)
    IN  /\ notificationIntervals' = Put(t.ni, key, TRUE)
        /\ intervalTimers' = Put(t.it, key, IF Has(t.it, key) THEN t.it[key] + 1 ELSE 1)
        /\ replayTimers' = {IF subs[r.l].key = key THEN [r EXCEPT !.early = TRUE] ELSE r :
                                r \in replayTimers}
        /\ fired' = <<>>
        /\ result' = Outcome("startSimulatedNotifications", key, "returned", Null)
        /\ UNCHANGED <<stateVars, scanVars, registryVars, connVars, listenerVars,
                       characteristicValues, writeListeners, restoreVars, ioVars>>

stopSimulatedNotifications(d, s, c) ==
    LET key == getCharacteristicKey(d, s, c)
        t == StopTimers(notificationIntervals, intervalTimers, key)
    IN  /\ notificationIntervals' = t.ni
        /\ intervalTimers' = t.it
        /\ fired' = <<>>
        /\ result' = Outcome("stopSimulatedNotifications", key, "returned", Null)
        /\ UNCHANGED <<stateVars, scanVars, registryVars, connVars, listenerVars,
                       characteristicValues, writeListeners, replayTimers, restoreVars, ioVars>>

\* a tick of an interval armed by startSimulatedNotifications for key; timers
\* expire in the order of their times, so a replay of the key armed before the
\* interval has fired by then
notificationTick(key) ==
    /\ Has(intervalTimers, key)
    /\ \A r \in replayTimers : subs[r.l].key = key => ~r.early
    /\ fired' = notifyCharacteristicChange(characteristicValues, key)
    /\ result' = Outcome("startSimulatedNotifications.tick", key, "returned", Null)
    /\ UNCHANGED <<stateVars, scanVars, registryVars, connVars, listenerVars, charVars,
                   restoreVars, ioVars>>

simulateCharacteristicError(d, s, c, error) ==
    LET key == getCharacteristicKey(d, s, c)
    IN  /\ fired' = Calls("monitor", ListenersOf(monitoredCharacteristics, arrays, key),
                          error, Null)
        /\ result' = Outcome("simulateCharacteristicError", key, "returned", Null)
        /\ UNCHANGED <<stateVars, scanVars, registryVars, connVars, listenerVars, charVars,
                       restoreVars, ioVars>>

\* ------------------------------------------- characteristic reads and writes
\* `map.get(key) || 0`
DelayOf(delays, key) == IF Has(delays, key) THEN delays[key] ELSE 0

ErrorOf(errors, key) == IF Has(errors, key) THEN errors[key] ELSE Null

\* `descriptors` undefined: no list at all (a list that is declared is never
\* empty here, so the empty sequence stands for the missing one)
NoDescriptors == <<>>

\* the descriptors a service's static metadata declares for a characteristic:
\* the heart-rate service "h" declares two for "c", one with a static value
\* and one without; the characteristics of the other services declare none
CharacteristicDescriptors(s, c) ==
    IF s = "h" /\ c = "c"
    THEN <<[uuid |-> "2902", value |-> "sv"], [uuid |-> "2901", value |-> Null]>>
    ELSE NoDescriptors

\* `serviceMetadata?.find(s => ...)?.characteristics.find(c => ...)?.descriptors`
DeclaredDescriptors(d, s, c) ==
    IF Has(serviceMetadata, d) /\ s \in Range(serviceMetadata[d])
    THEN CharacteristicDescriptors(s, c)
    ELSE NoDescriptors

\* `this.descriptorValues.get(getDescriptorKey(...)) || desc.value || null`
DescriptorEntryValue(key, desc) ==
    IF Has(descriptorValues, key) /\ descriptorValues[key] # ""
    THEN descriptorValues[key]
    ELSE IF desc.value # Null /\ desc.value # "" THEN desc.value
    ELSE Null

\* the descriptors list of the object a read resolves with: undefined when
\* the metadata declares none
ReadDescriptors(d, s, c) ==
    LET declared == DeclaredDescriptors(d, s, c)
    IN  IF declared = NoDescriptors THEN NoDescriptors
        ELSE [j \in DOMAIN declared |->
                 [uuid |-> declared[j].uuid,
                  value |-> DescriptorEntryValue(
                                getDescriptorKey(d, s, c, declared[j].uuid),
                                declared[j])]]

\* how a read or write ended: val is the value of the object it resolved
\* with, or that its continuation holds while it waits
Settled(op, key, status, err, val) ==
    [op |-> op, arg |-> key, status |-> status, err |-> err, val |-> val]

\* simulateReadOperation / simulateWriteOperation: the operation settles at
\* once, or in a later step when its delay has passed
Settle(op, key, delay, err, val) ==
    IF delay > 0
    THEN /\ Cardinality(pendingOps) < MaxPending
         /\ pendingOps' = pendingOps \cup {[op |-> op, key |-> key, err |-> err, val |-> val]}
         /\ result' = Settled(op, key, "pending", Null, val)
    ELSE /\ result' = Settled(op, key, IF err # Null THEN "rejected" ELSE "resolved",
                              err, val)
         /\ UNCHANGED pendingOps

\* how a read ended: the object it resolves with has a descriptors list too
ReadSettled(op, key, status, err, val, descriptors) ==
    [op |-> op, arg |-> key, status |-> status, err |-> err, val |-> val,
     descriptors |-> descriptors]

\* simulateReadOperation with the continuation of readCharacteristicForDevice,
\* which holds the value and the descriptors read when the call was made
SettleRead(key, delay, err, val, descriptors) ==
    IF delay > 0
    THEN /\ Cardinality(pendingOps) < MaxPending
         /\ pendingOps' = pendingOps \cup {[op |-> "readCharacteristicForDevice", key |-> key,
                                             err |-> err, val |-> val,
                                             descriptors |-> descriptors]}
         /\ result' = ReadSettled("readCharacteristicForDevice", key, "pending", Null, val,
                                  descriptors)
    ELSE /\ result' = ReadSettled("readCharacteristicForDevice", key,
                                  IF err # Null THEN "rejected" ELSE "resolved",
                                  err, val, descriptors)
         /\ UNCHANGED pendingOps

\* a continuation that looks for an injected error again when it resumes
SettleErrorAtResume(p) ==
    IF \/ Has(readErrors, p.key)
       \/ Has(writeWithResponseErrors, p.key)
       \/ Has(writeWithoutResponseErrors, p.key)
    THEN p.err ELSE Null

\* `() => Promise.reject(error)`: the continuation holds the error that was
\* read when the call was made
SettleError(p) == p.err

\* the delay of a suspended read or write has passed
operationResume(p) ==
    /\ p \in pendingOps
    /\ pendingOps' = pendingOps \ {p}
    /\ result' = IF p.op = "readCharacteristicForDevice"
                  THEN ReadSettled(p.op \o ".resume", p.key,
                                   IF SettleError(p) # Null THEN "rejected" ELSE "resolved",
                                   SettleError(p), p.val, p.descriptors)
                  ELSE Settled(p.op \o ".resume", p.key,
                               IF SettleError(p) # Null THEN "rejected" ELSE "resolved",
                               SettleError(p), p.val)
    /\ fired' = <<>>
    /\ UNCHANGED <<stateVars, scanVars, registryVars, connVars, listenerVars, charVars,
                   restoreVars, injectionVars>>

readCharacteristicForDevice(d, s, c) ==
    LET key == getCharacteristicKey(d, s, c)
    IN  /\ IF ~isDeviceConnected(d)
           THEN /\ result' = ReadSettled("readCharacteristicForDevice", key, "rejected",
                                         "Device is not connected", Null, NoDescriptors)
                /\ UNCHANGED pendingOps
           ELSE IF Has(readErrors, key)
           THEN SettleRead(key, DelayOf(readDelays, key), readErrors[key], Null, NoDescriptors)
           ELSE SettleRead(key, DelayOf(readDelays, key), Null, CurrentValue(key),
                           ReadDescriptors(d, s, c))
        /\ fired' = <<>>
        /\ UNCHANGED <<stateVars, scanVars, registryVars, connVars, listenerVars, charVars,
                       restoreVars, injectionVars>>

setCharacteristicValueForReading(d, s, c, value) ==
    /\ characteristicValues' = Put(characteristicValues, getCharacteristicKey(d, s, c), value)
    /\ fired' = <<>>
    /\ result' = [op |-> "setCharacteristicValueForReading",
                   arg |-> getCharacteristicKey(d, s, c), status |-> "returned",
                   err |-> Null, value |-> value]
    /\ UNCHANGED <<stateVars, scanVars, registryVars, connVars, listenerVars,
                   notificationIntervals, writeListeners, intervalTimers, replayTimers,
                   restoreVars, ioVars>>

simulateCharacteristicReadError(d, s, c, error) ==
    /\ readErrors' = Put(readErrors, getCharacteristicKey(d, s, c), error)
    /\ fired' = <<>>
    /\ result' = Outcome("simulateCharacteristicReadError", getCharacteristicKey(d, s, c), "returned", Null)
    /\ UNCHANGED <<stateVars, scanVars, registryVars, connVars, listenerVars, charVars,
                   restoreVars, pendingOps, readDelays, writeWithResponseDelays,
                   writeWithoutResponseDelays, writeWithResponseErrors,
                   writeWithoutResponseErrors, serviceMetadata, descriptorValues,
                   descriptorErrors>>

clearCharacteristicReadError(d, s, c) ==
    /\ readErrors' = Delete(readErrors, getCharacteristicKey(d, s, c))
    /\ fired' = <<>>
    /\ result' = Outcome("clearCharacteristicReadError", getCharacteristicKey(d, s, c), "returned", Null)
    /\ UNCHANGED <<stateVars, scanVars, registryVars, connVars, listenerVars, charVars,
                   restoreVars, pendingOps, readDelays, writeWithResponseDelays,
                   writeWithoutResponseDelays, writeWithResponseErrors,
                   writeWithoutResponseErrors, serviceMetadata, descriptorValues,
                   descriptorErrors>>

setCharacteristicReadDelay(d, s, c, delayMs) ==
    /\ readDelays' = Put(readDelays, getCharacteristicKey(d, s, c), delayMs)
    /\ fired' = <<>>
    /\ result' = Outcome("setCharacteristicReadDelay", getCharacteristicKey(d, s, c), "returned", Null)
    /\ UNCHANGED <<stateVars, scanVars, registryVars, connVars, listenerVars, charVars,
                   restoreVars, pendingOps, readErrors, writeWithResponseDelays,
                   writeWithoutResponseDelays, writeWithResponseErrors,
                   writeWithoutResponseErrors, serviceMetadata, descriptorValues,
                   descriptorErrors>>

WriteErrorsShared(withResponse) == writeWithResponseErrors

WriteErrorsOf(withResponse) ==
    IF withResponse THEN writeWithResponseErrors ELSE writeWithoutResponseErrors

WriteDelaysShared(withResponse) == writeWithResponseDelays

WriteDelaysOf(withResponse) ==
    IF withResponse THEN writeWithResponseDelays ELSE writeWithoutResponseDelays

notifyWriteListeners(key, value) ==
    IF Has(writeListeners, key) THEN <<Call("write", writeListeners[key], Null, value)>>
    ELSE <<>>

\* the body the two write variants share, each with its own maps
writeCharacteristic(op, withResponse, d, s, c, base64Value) ==
    LET key == getCharacteristicKey(d, s, c)
    IN  /\ IF ~isDeviceConnected(d)
           THEN /\ result' = Settled(op, key, "rejected", "Device is not connected", Null)
                /\ fired' = <<>>
                /\ UNCHANGED <<characteristicValues, pendingOps>>
           ELSE IF Has(WriteErrorsOf(withResponse), key)
           THEN /\ Settle(op, key, DelayOf(WriteDelaysOf(withResponse), key),
                          WriteErrorsOf(withResponse)[key], Null)
                /\ fired' = <<>>
                /\ UNCHANGED characteristicValues
           ELSE /\ characteristicValues' = Put(characteristicValues, key, base64Value)
                /\ fired' = notifyWriteListeners(key, base64Value)
                /\ Settle(op, key, DelayOf(WriteDelaysOf(withResponse), key),
                          Null, base64Value)
        /\ UNCHANGED <<stateVars, scanVars, registryVars, connVars, listenerVars,
                       notificationIntervals, writeListeners, intervalTimers, replayTimers,
                       restoreVars, injectionVars>>

writeCharacteristicWithResponseForDevice(d, s, c, base64Value) ==
    writeCharacteristic("writeCharacteristicWithResponseForDevice", TRUE, d, s, c,
                        base64Value)

writeCharacteristicWithoutResponseForDevice(d, s, c, base64Value) ==
    writeCharacteristic("writeCharacteristicWithoutResponseForDevice", FALSE, d, s, c,
                        base64Value)

simulateWriteWithResponseError(d, s, c, error) ==
    /\ writeWithResponseErrors' = Put(writeWithResponseErrors, getCharacteristicKey(d, s, c), error)
    /\ fired' = <<>>
    /\ result' = Outcome("simulateWriteWithResponseError", getCharacteristicKey(d, s, c), "returned", Null)
    /\ UNCHANGED <<stateVars, scanVars, registryVars, connVars, listenerVars, charVars,
                   restoreVars, pendingOps, readDelays, readErrors, writeWithResponseDelays,
                   writeWithoutResponseDelays, writeWithoutResponseErrors, serviceMetadata,
                   descriptorValues, descriptorErrors>>

clearWriteWithResponseError(d, s, c) ==
    /\ writeWithResponseErrors' = Delete(writeWithResponseErrors, getCharacteristicKey(d, s, c))
    /\ fired' = <<>>
    /\ result' = Outcome("clearWriteWithResponseError", getCharacteristicKey(d, s, c), "returned", Null)
    /\ UNCHANGED <<stateVars, scanVars, registryVars, connVars, listenerVars, charVars,
                   restoreVars, pendingOps, readDelays, readErrors, writeWithResponseDelays,
                   writeWithoutResponseDelays, writeWithoutResponseErrors, serviceMetadata,
                   descriptorValues, descriptorErrors>>

setWriteWithResponseDelay(d, s, c, delayMs) ==
    /\ writeWithResponseDelays' = Put(writeWithResponseDelays, getCharacteristicKey(d, s, c), delayMs)
    /\ fired' = <<>>
    /\ result' = Outcome("setWriteWithResponseDelay", getCharacteristicKey(d, s, c), "returned", Null)
    /\ UNCHANGED <<stateVars, scanVars, registryVars, connVars, listenerVars, charVars,
                   restoreVars, pendingOps, readDelays, readErrors,
                   writeWithoutResponseDelays, writeWithResponseErrors,
                   writeWithoutResponseErrors, serviceMetadata, descriptorValues,
                   descriptorErrors>>

simulateWriteWithoutResponseError(d, s, c, error) ==
    /\ writeWithoutResponseErrors' = Put(writeWithoutResponseErrors, getCharacteristicKey(d, s, c), error)
    /\ fired' = <<>>
    /\ result' = Outcome("simulateWriteWithoutResponseError", getCharacteristicKey(d, s, c), "returned", Null)
    /\ UNCHANGED <<stateVars, scanVars, registryVars, connVars, listenerVars, charVars,
                   restoreVars, pendingOps, readDelays, readErrors, writeWithResponseDelays,
                   writeWithoutResponseDelays, writeWithResponseErrors, serviceMetadata,
                   descriptorValues, descriptorErrors>>

clearWriteWithoutResponseError(d, s, c) ==
    /\ writeWithoutResponseErrors' = Delete(writeWithoutResponseErrors, getCharacteristicKey(d, s, c))
    /\ fired' = <<>>
    /\ result' = Outcome("clearWriteWithoutResponseError", getCharacteristicKey(d, s, c), "returned", Null)
    /\ UNCHANGED <<stateVars, scanVars, registryVars, connVars, listenerVars, charVars,
                   restoreVars, pendingOps, readDelays, readErrors, writeWithResponseDelays,
                   writeWithoutResponseDelays, writeWithResponseErrors, serviceMetadata,
                   descriptorValues, descriptorErrors>>

setWriteWithoutResponseDelay(d, s, c, delayMs) ==
    /\ writeWithoutResponseDelays' = Put(writeWithoutResponseDelays, getCharacteristicKey(d, s, c), delayMs)
    /\ fired' = <<>>
    /\ result' = Outcome("setWriteWithoutResponseDelay", getCharacteristicKey(d, s, c), "returned", Null)
    /\ UNCHANGED <<stateVars, scanVars, registryVars, connVars, listenerVars, charVars,
                   restoreVars, pendingOps, readDelays, readErrors, writeWithResponseDelays,
                   writeWithResponseErrors, writeWithoutResponseErrors, serviceMetadata,
                   descriptorValues, descriptorErrors>>

\* ----------------------------------------------------------- descriptors
\* `this.descriptorValues.get(key) || null`
DescriptorValue(key) ==
    IF Has(descriptorValues, key) /\ descriptorValues[key] # ""
    THEN descriptorValues[key] ELSE Null

readDescriptorForCharacteristic(c, s, d, desc) ==
    LET key == getDescriptorKey(d, s, c, desc)
    IN  /\ result' =
              IF ~isDeviceConnected(d)
              THEN Settled("readDescriptorForCharacteristic", key, "rejected",
                           "Device is not connected", Null)
              ELSE IF Has(descriptorErrors, key)
              THEN Settled("readDescriptorForCharacteristic", key, "rejected",
                           descriptorErrors[key], Null)
              ELSE Settled("readDescriptorForCharacteristic", key, "resolved", Null,
                           DescriptorValue(key))
        /\ fired' = <<>>
        /\ UNCHANGED <<stateVars, scanVars, registryVars, connVars, listenerVars, charVars,
                       restoreVars, ioVars>>

writeDescriptorForCharacteristic(c, s, d, desc, base64Value) ==
    LET key == getDescriptorKey(d, s, c, desc)
    IN  /\ IF ~isDeviceConnected(d)
           THEN /\ result' = Settled("writeDescriptorForCharacteristic", key, "rejected",
                                     "Device is not connected", Null)
                /\ UNCHANGED descriptorValues
           ELSE IF Has(descriptorErrors, key)
           THEN /\ result' = Settled("writeDescriptorForCharacteristic", key, "rejected",
                                     descriptorErrors[key], Null)
                /\ UNCHANGED descriptorValues
           ELSE /\ descriptorValues' = Put(descriptorValues, key, base64Value)
                /\ result' = Settled("writeDescriptorForCharacteristic", key, "resolved",
                                     Null, base64Value)
        /\ fired' = <<>>
        /\ UNCHANGED <<stateVars, scanVars, registryVars, connVars, listenerVars, charVars,
                       restoreVars, readDelays, readErrors, writeWithResponseDelays,
                       writeWithoutResponseDelays, writeWithResponseErrors,
                       writeWithoutResponseErrors, serviceMetadata, descriptorErrors,
                       pendingOps>>

setDescriptorValue(d, s, c, desc, value) ==
    /\ descriptorValues' = Put(descriptorValues, getDescriptorKey(d, s, c, desc), value)
    /\ fired' = <<>>
    /\ result' = Outcome("setDescriptorValue", getDescriptorKey(d, s, c, desc), "returned", Null)
    /\ UNCHANGED <<stateVars, scanVars, registryVars, connVars, listenerVars, charVars,
                   restoreVars, pendingOps, readDelays, readErrors, writeWithResponseDelays,
                   writeWithoutResponseDelays, writeWithResponseErrors,
                   writeWithoutResponseErrors, serviceMetadata, descriptorErrors>>

simulateDescriptorError(d, s, c, desc, error) ==
    /\ descriptorErrors' = Put(descriptorErrors, getDescriptorKey(d, s, c, desc), error)
    /\ fired' = <<>>
    /\ result' = Outcome("simulateDescriptorError", getDescriptorKey(d, s, c, desc), "returned", Null)
    /\ UNCHANGED <<stateVars, scanVars, registryVars, connVars, listenerVars, charVars,
                   restoreVars, pendingOps, readDelays, readErrors, writeWithResponseDelays,
                   writeWithoutResponseDelays, writeWithResponseErrors,
                   writeWithoutResponseErrors, serviceMetadata, descriptorValues>>

clearDescriptorError(d, s, c, desc) ==
    /\ descriptorErrors' = Delete(descriptorErrors, getDescriptorKey(d, s, c, desc))
    /\ fired' = <<>>
    /\ result' = Outcome("clearDescriptorError", getDescriptorKey(d, s, c, desc), "returned", Null)
    /\ UNCHANGED <<stateVars, scanVars, registryVars, connVars, listenerVars, charVars,
                   restoreVars, pendingOps, readDelays, readErrors, writeWithResponseDelays,
                   writeWithoutResponseDelays, writeWithResponseErrors,
                   writeWithoutResponseErrors, serviceMetadata, descriptorValues>>

\* ------------------------------------------------------------- scanning
StoppedScanStillScanning ==
    [isScanning |-> isScanning, scanListener |-> scanListener, scanInterval |-> scanInterval]

\* stopDeviceScan's assignments: [isScanning, scanListener, scanInterval]
StoppedScan == [isScanning |-> FALSE, scanListener |-> 0, scanInterval |-> <<>>]

stopDeviceScan ==
    /\ isScanning' = StoppedScan.isScanning
    /\ scanListener' = StoppedScan.scanListener
    /\ scanInterval' = StoppedScan.scanInterval
    /\ fired' = <<>>
    /\ result' = Outcome("stopDeviceScan", Null, "returned", Null)
    /\ UNCHANGED <<stateVars, scanErrorSimulation, scanOptions, scanUUIDs, discoveryInterval,
                   registryVars, connVars, listenerVars, charVars, ioVars, restoreVars>>

\* the burst if the UUID filter of the scan were applied to it
InitialBurstFiltered(l, UUIDs) ==
    LET wanted(dev) == UUIDs = <<>> \/ Range(dev.serviceUUIDs) \cap Range(UUIDs) # {}
        kept == SelectSeq(discoveredDevices, wanted)
    IN  [i \in DOMAIN kept |-> Call("scan", l, Null, kept[i].id)]

\* the initial burst of simulateDeviceDiscovery: every registered device, in
\* order, whatever this.scanUUIDs holds
InitialBurst(l, UUIDs) ==
    [i \in DOMAIN discoveredDevices |-> Call("scan", l, Null, discoveredDevices[i].id)]

startDeviceScan(UUIDs, allowDuplicates) ==
    LET l == Len(subs) + 1
    IN  /\ IF isScanning
           THEN /\ result' = Outcome("startDeviceScan", Null, "threw",
                                     "Scan already in progress")
                /\ fired' = <<>>
                /\ UNCHANGED <<isScanning, scanListener, scanInterval, scanOptions,
                               scanUUIDs, subs>>
           ELSE /\ isScanning' = TRUE
                /\ scanListener' = l
                /\ scanOptions' = allowDuplicates
                /\ scanUUIDs' = UUIDs
                /\ subs' = Append(subs, NewSub("scan", Null, 0))
                /\ fired' = InitialBurst(l, UUIDs)
                /\ scanInterval' = <<discoveryInterval>>
                /\ result' = Outcome("startDeviceScan", Null, "returned", Null)
        /\ UNCHANGED <<stateVars, scanErrorSimulation, discoveryInterval, registryVars,
                       connVars, connectionListeners, mtuListeners,
                       monitoredCharacteristics, arrays, charVars, ioVars, restoreVars>>

ErrorAfterFiringKept == scanErrorSimulation

\* `this.scanErrorSimulation = null; // Clear after firing`
ErrorAfterFiring == Null

\* one tick of the scan interval; the device and the `Math.random() > 0.7` draw
\* are chosen by the caller
scanTick(i, deliver) ==
    /\ scanInterval # <<>>
    /\ IF ~isScanning \/ scanListener = 0
       THEN /\ fired' = <<>>
            /\ UNCHANGED scanErrorSimulation
       ELSE IF scanErrorSimulation # Null
       THEN /\ fired' = <<Call("scan", scanListener, scanErrorSimulation, Null)>>
            /\ scanErrorSimulation' = ErrorAfterFiring
       ELSE IF Len(discoveredDevices) > 0
       THEN /\ i \in DOMAIN discoveredDevices
            /\ fired' = IF scanOptions \/ deliver
                        THEN <<Call("scan", scanListener, Null, discoveredDevices[i].id)>>
                        ELSE <<>>
            /\ UNCHANGED scanErrorSimulation
       ELSE /\ fired' = <<>>
            /\ UNCHANGED scanErrorSimulation
    /\ result' = Outcome("scanInterval.tick", Null, "returned", Null)
    /\ UNCHANGED <<stateVars, isScanning, scanListener, scanInterval, scanOptions, scanUUIDs,
                   discoveryInterval, registryVars, connVars, listenerVars, charVars,
                   ioVars, restoreVars>>

simulateScanError(error) ==
    /\ scanErrorSimulation' = error
    /\ fired' = <<>>
    /\ result' = Outcome("simulateScanError", Null, "returned", Null)
    /\ UNCHANGED <<stateVars, isScanning, scanListener, scanInterval, scanOptions, scanUUIDs,
                   discoveryInterval, registryVars, connVars, listenerVars, charVars,
                   ioVars, restoreVars>>

clearScanError ==
    /\ scanErrorSimulation' = Null
    /\ fired' = <<>>
    /\ result' = Outcome("clearScanError", Null, "returned", Null)
    /\ UNCHANGED <<stateVars, isScanning, scanListener, scanInterval, scanOptions, scanUUIDs,
                   discoveryInterval, registryVars, connVars, listenerVars, charVars,
                   ioVars, restoreVars>>

\* a timer restarted at the period the field held before the call
IntervalRestartedAtOldPeriod(interval) == <<discoveryInterval>>

\* startInterval after `this.discoveryInterval = interval`: the old timer is
\* cleared and `setInterval(..., this.discoveryInterval)` arms the only one
IntervalRestarted(interval) == <<interval>>

setDiscoveryInterval(interval) ==
    /\ discoveryInterval' = interval
    /\ IF isScanning
       THEN /\ fired' = IF scanListener # 0 THEN InitialBurst(scanListener, scanUUIDs)
                        ELSE <<>>
            /\ scanInterval' = IntervalRestarted(interval)
       ELSE /\ fired' = <<>>
            /\ UNCHANGED scanInterval
    /\ result' = Outcome("setDiscoveryInterval", interval, "returned", Null)
    /\ UNCHANGED <<stateVars, isScanning, scanListener, scanErrorSimulation, scanOptions, scanUUIDs,
                   registryVars, connVars, listenerVars, charVars, ioVars, restoreVars>>

\* startDeviceScan with a listener that calls stopDeviceScan when it is invoked
\* for the stopAt-th time during the initial burst: the forEach of
\* simulateDeviceDiscovery finds `this.scanListener` null from then on, and
\* startInterval runs after it, with nothing to clear
startDeviceScanListenerStops(UUIDs, allowDuplicates, stopAt) ==
    LET l == Len(subs) + 1
    IN  /\ ~isScanning
        /\ stopAt \in 1..Len(discoveredDevices)
        /\ isScanning' = StoppedScan.isScanning
        /\ scanListener' = StoppedScan.scanListener
        /\ scanOptions' = allowDuplicates
        /\ scanUUIDs' = UUIDs
        /\ subs' = Append(subs, NewSub("scan", Null, 0))
        /\ fired' = SubSeq(InitialBurst(l, UUIDs), 1, stopAt)
        /\ scanInterval' = <<discoveryInterval>>
        /\ result' = Outcome("startDeviceScan", Null, "returned", Null)
        /\ UNCHANGED <<stateVars, scanErrorSimulation, discoveryInterval, registryVars,
                       connVars, connectionListeners, mtuListeners,
                       monitoredCharacteristics, arrays, charVars, ioVars, restoreVars>>

\* setDiscoveryInterval during a scan whose listener calls stopDeviceScan when
\* it is invoked for the stopAt-th time during the burst
setDiscoveryIntervalListenerStops(interval, stopAt) ==
    /\ isScanning
    /\ scanListener # 0
    /\ stopAt \in 1..Len(discoveredDevices)
    /\ discoveryInterval' = interval
    /\ isScanning' = StoppedScan.isScanning
    /\ scanListener' = StoppedScan.scanListener
    /\ fired' = SubSeq(InitialBurst(scanListener, scanUUIDs), 1, stopAt)
    /\ scanInterval' = IntervalRestarted(interval)
    /\ result' = Outcome("setDiscoveryInterval", interval, "returned", Null)
    /\ UNCHANGED <<stateVars, scanErrorSimulation, scanOptions, scanUUIDs,
                   registryVars, connVars, listenerVars, charVars, ioVars, restoreVars>>

\* ------------------------------------------------------- adapter state
\* the callbacks of simulateDeviceDisconnection(d, error) for each d of connected, in order
RECURSIVE DisconnectAll(_, _)
DisconnectAll(connected, error) ==
    IF connected = <<>> THEN <<>>
    ELSE notifyConnectionListeners(Head(connected), error,
             IF DevHas(discoveredDevices, Head(connected)) THEN Head(connected) ELSE Null)
         \o DisconnectAll(Tail(connected), error)

DeleteAll(m, keys) == [x \in (DOMAIN m) \ keys |-> m[x]]

ScanAfterSetStateOnlyPoweredOff(newState) ==
    IF newState = "PoweredOff" /\ isScanning
    THEN StoppedScan
    ELSE [isScanning |-> isScanning, scanListener |-> scanListener,
          scanInterval |-> scanInterval]

\* the scan fields after setState(newState)
ScanAfterSetState(newState) ==
    IF newState # "PoweredOn" /\ isScanning
    THEN StoppedScan
    ELSE [isScanning |-> isScanning, scanListener |-> scanListener,
          scanInterval |-> scanInterval]

DisconnectedBySetStateFirstOnly(newState) ==
    IF newState = "PoweredOff" /\ connectedDevices # <<>>
    THEN <<Head(connectedDevices)>> ELSE <<>>

\* the devices setState(newState) disconnects
DisconnectedBySetState(newState) ==
    IF newState = "PoweredOff" THEN connectedDevices ELSE <<>>

\* setState calling the listeners only when the state changes
StateNotifiedOnChange(newState) ==
    IF newState = currentState THEN <<>> ELSE stateListeners

\* `this.stateListeners.forEach(listener => listener(newState))`
StateNotified(newState) == stateListeners

setState(newState) ==
    LET scan == ScanAfterSetState(newState)
        gone == DisconnectedBySetState(newState)
    IN  /\ currentState' = newState
        /\ isScanning' = scan.isScanning
        /\ scanListener' = scan.scanListener
        /\ scanInterval' = scan.scanInterval
        /\ connectedDevices' = SelectSeq(connectedDevices, LAMBDA d : ~SetHas(gone, d))
        /\ discoveredServices' = DeleteAll(discoveredServices, Range(gone))
        /\ fired' = Calls("state", StateNotified(newState), Null, newState)
                        \o DisconnectAll(gone, "Bluetooth powered off")
        /\ result' = Outcome("setState", newState, "returned", Null)
        /\ UNCHANGED <<stateListeners, scanErrorSimulation, scanOptions, scanUUIDs, discoveryInterval,
                       registryVars, connectionDelays, connectionErrors,
                       disconnectionErrors, deviceMaxMTUs, pendingConnects,
                       pendingDiscoveries, listenerVars, charVars, ioVars, restoreVars>>

\* ------------------------------------------------------ service discovery
\* what discovery stores for the registered device d: the array its
\* `services` closure resolves with, or `[]` when it has no closure
ProjectedServices(d) ==
    IF DevGet(discoveredDevices, d).hasServices
    THEN DevGet(discoveredDevices, d).serviceUUIDs ELSE <<>>

discoverAllServicesAndCharacteristicsForDevice(d) ==
    /\ IF ~isDeviceConnected(d)
       THEN /\ result' = Outcome("discoverAllServicesAndCharacteristicsForDevice", d,
                                 "rejected", "Device not connected")
            /\ UNCHANGED <<discoveredServices, pendingDiscoveries>>
       ELSE IF ~DevHas(discoveredDevices, d)
       THEN /\ result' = Outcome("discoverAllServicesAndCharacteristicsForDevice", d,
                                 "rejected", "Device not found")
            /\ UNCHANGED <<discoveredServices, pendingDiscoveries>>
       ELSE IF DevGet(discoveredDevices, d).hasServices
       THEN \* `await device.services()`: the rest runs in a later microtask
            /\ Cardinality(pendingDiscoveries) < MaxPending
            /\ pendingDiscoveries' = pendingDiscoveries \cup
                   {[d |-> d, services |-> ProjectedServices(d)]}
            /\ result' = Outcome("discoverAllServicesAndCharacteristicsForDevice", d,
                                 "pending", Null)
            /\ UNCHANGED discoveredServices
       ELSE /\ discoveredServices' = Put(discoveredServices, d, ProjectedServices(d))
            /\ result' = Outcome("discoverAllServicesAndCharacteristicsForDevice", d,
                                 "resolved", Null)
            /\ UNCHANGED pendingDiscoveries
    /\ fired' = <<>>
    /\ UNCHANGED <<stateVars, scanVars, registryVars, connectedDevices, connectionDelays,
                   connectionErrors, disconnectionErrors, deviceMaxMTUs, pendingConnects,
                   listenerVars, charVars, ioVars, restoreVars>>

\* the continuation of discovery after `await device.services()`
discoverResume(p) ==
    /\ p \in pendingDiscoveries
    /\ pendingDiscoveries' = pendingDiscoveries \ {p}
    /\ discoveredServices' = Put(discoveredServices, p.d, p.services)
    /\ fired' = <<>>
    /\ result' = Outcome("discoverAllServicesAndCharacteristicsForDevice.resume", p.d,
                         "resolved", Null)
    /\ UNCHANGED <<stateVars, scanVars, registryVars, connectedDevices, connectionDelays,
                   connectionErrors, disconnectionErrors, deviceMaxMTUs, pendingConnects,
                   listenerVars, charVars, ioVars, restoreVars>>

\* how characteristicsForService(s, d) would end in the current state
CharacteristicsForServiceError(s, d) ==
    IF ~Has(serviceMetadata, d) THEN "Device not found or has no services"
    ELSE IF s \notin Range(serviceMetadata[d]) THEN "Service not found"
    ELSE Null

characteristicsForService(s, d) ==
    /\ result' = Outcome("characteristicsForService", <<s, d>>,
                         IF CharacteristicsForServiceError(s, d) # Null
                         THEN "rejected" ELSE "resolved",
                         CharacteristicsForServiceError(s, d))
    /\ fired' = <<>>
    /\ UNCHANGED <<stateVars, scanVars, registryVars, connVars, listenerVars, charVars,
                   ioVars, restoreVars>>

\* how servicesForDevice(d) would end in the current state
ServicesForDeviceError(d) ==
    IF ~Has(discoveredServices, d) THEN "Services not discovered for device" ELSE Null

servicesForDevice(d) ==
    /\ result' = Outcome("servicesForDevice", d,
                         IF ServicesForDeviceError(d) # Null THEN "rejected" ELSE "resolved",
                         ServicesForDeviceError(d))
    /\ fired' = <<>>
    /\ UNCHANGED <<stateVars, scanVars, registryVars, connVars, listenerVars, charVars,
                   ioVars, restoreVars>>

\* ------------------------------------------------------------- teardown
clearAllSimulatedErrors ==
    /\ scanErrorSimulation' = Null
    /\ connectionErrors' = EmptyMap
    /\ readErrors' = EmptyMap
    /\ writeWithResponseErrors' = EmptyMap
    /\ writeWithoutResponseErrors' = EmptyMap
    /\ disconnectionErrors' = EmptyMap
    /\ fired' = <<>>
    /\ result' = Outcome("clearAllSimulatedErrors", Null, "returned", Null)
    /\ UNCHANGED <<stateVars, isScanning, scanListener, scanInterval, scanOptions, scanUUIDs,
                   discoveryInterval, registryVars, connectedDevices, connectionDelays,
                   deviceMaxMTUs, discoveredServices, pendingConnects, pendingDiscoveries,
                   listenerVars, charVars, readDelays, writeWithResponseDelays,
                   writeWithoutResponseDelays, serviceMetadata, descriptorValues,
                   descriptorErrors, pendingOps, restoreVars>>

\* the interval timers left armed once every handle of the Map ni is cleared
ClearAllTimers(ni, it) ==
    LET left == [k \in DOMAIN it |-> IF Has(ni, k) THEN it[k] - 1 ELSE it[k]]
    IN  [k \in {x \in DOMAIN left : left[x] > 0} |-> left[k]]

\* destroy disconnecting without giving its error
DestroyErrorOmitted == "Simulated disconnection"

\* `new Error('Manager destroyed')`
DestroyError == "Manager destroyed"

destroy ==
    /\ isScanning' = FALSE
    /\ scanListener' = IF isScanning THEN 0 ELSE scanListener
    /\ scanInterval' = <<>>
    /\ intervalTimers' = ClearAllTimers(notificationIntervals, intervalTimers)
    /\ notificationIntervals' = EmptyMap
    /\ fired' = DisconnectAll(connectedDevices, DestroyError)
    /\ stateListeners' = <<>>
    /\ discoveredDevices' = <<>>
    /\ connectedDevices' = <<>>
    /\ monitoredCharacteristics' = EmptyMap
    /\ characteristicValues' = EmptyMap
    /\ connectionListeners' = EmptyMap
    /\ mtuListeners' = EmptyMap
    /\ arrays' = Collect(arrays, EmptyMap, EmptyMap, EmptyMap, subs)
    /\ deviceMaxMTUs' = EmptyMap
    /\ discoveredServices' = EmptyMap
    /\ serviceMetadata' = EmptyMap
    /\ readDelays' = EmptyMap
    /\ readErrors' = EmptyMap
    /\ writeWithResponseDelays' = EmptyMap
    /\ writeWithoutResponseDelays' = EmptyMap
    /\ writeWithResponseErrors' = EmptyMap
    /\ writeWithoutResponseErrors' = EmptyMap
    /\ writeListeners' = EmptyMap
    /\ connectionDelays' = EmptyMap
    /\ connectionErrors' = EmptyMap
    /\ disconnectionErrors' = EmptyMap
    /\ descriptorValues' = EmptyMap
    /\ descriptorErrors' = EmptyMap
    /\ result' = Outcome("destroy", Null, "returned", Null)
    /\ UNCHANGED <<currentState, scanErrorSimulation, scanOptions, scanUUIDs, discoveryInterval,
                   pendingConnects, pendingDiscoveries, pendingOps, subs, replayTimers,
                   restoreVars>>

\* ---------------------------------------------------------------- history
\* the history variables follow every step: a device enters discoveryRunSince
\* when a discovery call for it passes its checks and leaves when it leaves
\* the connected set; it enters discoveryDoneSince when a discovery for it
\* completes and leaves when it enters the connected set; scanEnded tells whether the step ended a scan;
\* stoppedListeners collects the listeners stopDeviceScan cleared, called by
\* test code or by the listener itself during a burst;
\* registeredAtDestroy holds the listeners that had registered when destroy was
\* last called; latestCalled holds, by key, the value given to the latest call
\* of a write or a set that was not turned away (destroy empties the store)
TrackCommon ==
    /\ discoveryRunSince' =
        (discoveryRunSince \cup
            (IF /\ result'.op = "discoverAllServicesAndCharacteristicsForDevice"
                /\ result'.status \in {"pending", "resolved"}
             THEN {result'.arg} ELSE {}))
        \ {d \in Range(connectedDevices) : ~SetHas(connectedDevices', d)}
    /\ discoveryDoneSince' =
        (discoveryDoneSince \cup
            (IF /\ result'.op \in {"discoverAllServicesAndCharacteristicsForDevice",
                                  "discoverAllServicesAndCharacteristicsForDevice.resume"}
                /\ result'.status = "resolved"
             THEN {result'.arg} ELSE {}))
        \ {d \in Range(connectedDevices') : ~SetHas(connectedDevices, d)}
    /\ scanEnded' = (isScanning /\ ~isScanning')
    /\ stoppedListeners' = stoppedListeners \cup
            (IF result'.op = "stopDeviceScan" /\ scanListener # 0
             THEN {scanListener}
             ELSE IF result'.op = "setDiscoveryInterval" /\ isScanning /\ ~isScanning'
             THEN {scanListener}
             ELSE IF /\ result'.op = "startDeviceScan"
                     /\ result'.status = "returned"
                     /\ ~isScanning'
             THEN {Len(subs')}
             ELSE {})
    /\ registeredAtDestroy' =
            IF result'.op = "destroy" THEN DOMAIN subs ELSE registeredAtDestroy
    /\ latestCalled' =
            IF result'.op = "destroy" THEN EmptyMap
            ELSE IF result'.op \in {"setCharacteristicValue", "setCharacteristicValueForReading"}
            THEN Put(latestCalled, result'.arg, result'.value)
            ELSE IF /\ result'.op \in {"writeCharacteristicWithResponseForDevice",
                                       "writeCharacteristicWithoutResponseForDevice"}
                    /\ result'.status \in {"pending", "resolved"}
                    /\ result'.val # Null
            THEN Put(latestCalled, result'.arg, result'.val)
            ELSE latestCalled

Track == TrackCommon /\ UNCHANGED <<storeOrder, lastDelivered>>

\* the place of the value v in the sequence order, 0 when it is not there
Place(order, v) ==
    IF \E i \in DOMAIN order : order[i] = v
    THEN CHOOSE i \in DOMAIN order : order[i] = v
    ELSE 0

\* the monitor callbacks among calls
MonitorCalls(calls) == SelectSeq(calls, LAMBDA c : c.kind = "monitor" /\ c.err = Null)

\* the history of SpecOrder: every value stored, in order, and for each monitor
\* listener the newest value it has been given so far
TrackOrder ==
    /\ TrackCommon
    /\ storeOrder' = IF result'.op = "setCharacteristicValue"
                     THEN Append(storeOrder, result'.value) ELSE storeOrder
    /\ lastDelivered' =
         LET given == MonitorCalls(fired')
             newest(l) == {Place(storeOrder', given[j].val) :
                              j \in {i \in DOMAIN given : given[i].l = l}}
                          \cup (IF Has(lastDelivered, l) THEN {lastDelivered[l]} ELSE {})
         IN  [l \in DOMAIN lastDelivered \cup {given[j].l : j \in DOMAIN given} |->
                 CHOOSE n \in newest(l) : \A k \in newest(l) : k <= n]

\* ======================================================== specifications
\* Subscriptions: registration and release of the monitor, connection and MTU
\* listeners of one device and one characteristic, with the operations that
\* notify them.  The manager is built without a restoration identifier.
NextSub ==
    /\ \/ addMockDevice("d1", TRUE, 0, FALSE, <<>>)
       \/ connectToDevice("d1", 0)
       \/ simulateDeviceDisconnection("d1", Null)
       \/ CanSubscribe(MaxSubs) /\ monitorCharacteristicForDevice("d1", "s", "c")
       \/ CanSubscribe(MaxSubs) /\ onDeviceDisconnected("d1")
       \/ CanSubscribe(MaxSubs) /\ onMTUChanged("d1")
       \/ \E i \in DOMAIN subs : remove(i)
       \/ \E t \in replayTimers : monitorReplay(t)
       \/ setCharacteristicValue("d1", "s", "c", "v1", TRUE)
       \/ startSimulatedNotifications("d1", "s", "c")
       \/ notificationTick(getCharacteristicKey("d1", "s", "c"))
       \/ requestMTUForDevice("d1", 100)
    /\ Track

InitSub ==
    /\ Init
    /\ restoreStateIdentifier = Null
    /\ ~restoreStateFunction
    /\ restoredStateStore = EmptyMap

SpecSub == InitSub /\ [][NextSub]_vars

\* Connecting: one device, its registration, the adapter state, the connection
\* delay and the connection-error record, with MTU listeners watching.  The
\* adapter powering off is what disconnects.  The manager is built with a
\* restoration identifier.
InitConnect ==
    /\ Init
    /\ restoreStateIdentifier = "rid"
    /\ ~restoreStateFunction
    /\ restoredStateStore = EmptyMap

NextConnect ==
    /\ \/ \E c \in BOOLEAN : addMockDevice("d1", c, 0, FALSE, <<>>)
       \/ removeMockDevice("d1")
       \/ \E m \in {0, 100} : connectToDevice("d1", m)
       \/ \E p \in pendingConnects : connectToDeviceResume(p)
       \/ \E ms \in {0, 5} : setConnectionDelay("d1", ms)
       \/ \E e \in {"e1", "e2"} : simulateConnectionError("d1", e)
       \/ clearConnectionError("d1")
       \/ clearAllSimulatedErrors
       \/ \E st \in {"PoweredOn", "PoweredOff"} : setState(st)
       \/ CanSubscribe(MaxWatchers) /\ onMTUChanged("d1")
    /\ Track

SpecConnect == InitConnect /\ [][NextConnect]_vars

\* Disconnecting: two devices, their connection, discovery and the four ways a
\* device leaves the connected set, with connection listeners watching.  The
\* manager is built with a restoration identifier.  d1 is registered with
\* service metadata (its discovery awaits), d2 without.
DisDevices == {"d1", "d2"}

InitDisconnect ==
    /\ Init
    /\ restoreStateIdentifier = "rid"
    /\ ~restoreStateFunction
    /\ restoredStateStore = EmptyMap

NextDisconnect ==
    /\ \/ addMockDevice("d1", TRUE, 0, TRUE, <<"s">>)
       \/ addMockDevice("d2", TRUE, 0, FALSE, <<>>)
       \/ removeMockDevice("d1")
       \/ \E d \in DisDevices : connectToDevice(d, 0)
       \/ \E d \in DisDevices : cancelDeviceConnection(d)
       \/ simulateDisconnectionError("d1", "e1")
       \/ clearDisconnectionError("d1")
       \/ \E d \in DisDevices, e \in {Null, "e2"} : simulateDeviceDisconnection(d, e)
       \/ \E st \in {"PoweredOn", "PoweredOff"} : setState(st)
       \/ discoverAllServicesAndCharacteristicsForDevice("d1")
       \/ \E p \in pendingDiscoveries : discoverResume(p)
       \/ servicesForDevice("d1")
       \/ \E d \in DisDevices : CanSubscribe(MaxWatchers) /\ onDeviceDisconnected(d)
    /\ Track

SpecDisconnect == InitDisconnect /\ [][NextDisconnect]_vars

\* Scanning: scans started, stopped and ticking over a changing registry,
\* with the adapter changing state and the interval being reset.
InitScan ==
    /\ Init
    /\ restoreStateIdentifier = Null
    /\ ~restoreStateFunction
    /\ restoredStateStore = EmptyMap

NextScan ==
    /\ \/ addMockDevice("d1", TRUE, 0, FALSE, <<"s">>)
       \/ addMockDevice("d2", TRUE, 0, FALSE, <<>>)
       \/ removeMockDevice("d1")
       \/ \E UUIDs \in {<<>>, <<"s">>, <<"x">>}, allowDuplicates \in BOOLEAN :
            CanSubscribe(MaxWatchers) /\ startDeviceScan(UUIDs, allowDuplicates)
       \/ stopDeviceScan
       \/ \E i \in 1..2, deliver \in BOOLEAN : scanTick(i, deliver)
       \/ simulateScanError("e1")
       \/ clearScanError
       \/ \E ms \in {DefaultDiscoveryInterval, 100} : setDiscoveryInterval(ms)
       \/ \E st \in {"PoweredOn", "PoweredOff", "Resetting"} : setState(st)
    /\ Track

SpecScan == InitScan /\ [][NextScan]_vars

\* Reading and writing: one device, two characteristics, the error and delay
\* records of the three operation kinds, a write observer and operations
\* suspended on their delay.
IOChars == {"c", "c2"}

\* the number of error and delay records held
Injected ==
    Cardinality(DOMAIN readErrors) + Cardinality(DOMAIN readDelays)
    + Cardinality(DOMAIN writeWithResponseErrors)
    + Cardinality(DOMAIN writeWithResponseDelays)
    + Cardinality(DOMAIN writeWithoutResponseErrors)
    + Cardinality(DOMAIN writeWithoutResponseDelays)

CanInject == Injected < MaxInjected

InitIO ==
    /\ Init
    /\ restoreStateIdentifier = Null
    /\ ~restoreStateFunction
    /\ restoredStateStore = EmptyMap

NextIO ==
    /\ \/ addMockDevice("d1", TRUE, 0, FALSE, <<>>)
       \/ connectToDevice("d1", 0)
       \/ simulateDeviceDisconnection("d1", Null)
       \/ setCharacteristicValueForReading("d1", "s", "c", "v0")
       \/ CanSubscribe(MaxWatchers) /\ onCharacteristicWrite("d1", "s", "c")
       \/ \E c \in IOChars : readCharacteristicForDevice("d1", "s", c)
       \/ writeCharacteristicWithResponseForDevice("d1", "s", "c", "v1")
       \/ writeCharacteristicWithoutResponseForDevice("d1", "s", "c", "v2")
       \/ \E p \in pendingOps : operationResume(p)
       \/ \E c \in IOChars : CanInject /\ simulateCharacteristicReadError("d1", "s", c, "e1")
       \/ clearCharacteristicReadError("d1", "s", "c")
       \/ CanInject /\ setCharacteristicReadDelay("d1", "s", "c", 5)
       \/ CanInject /\ simulateWriteWithResponseError("d1", "s", "c", "e2")
       \/ clearWriteWithResponseError("d1", "s", "c")
       \/ CanInject /\ setWriteWithResponseDelay("d1", "s", "c", 5)
       \/ CanInject /\ simulateWriteWithoutResponseError("d1", "s", "c", "e3")
       \/ clearWriteWithoutResponseError("d1", "s", "c")
       \/ CanInject /\ setWriteWithoutResponseDelay("d1", "s", "c", 5)
    /\ Track

SpecIO == InitIO /\ [][NextIO]_vars

\* Requiring a connection: the operations that need one, called on d1 whether
\* or not it is connected, while d2 connects too and values, a write observer
\* and listeners exist.
InitGuard ==
    /\ Init
    /\ restoreStateIdentifier = Null
    /\ ~restoreStateFunction
    /\ restoredStateStore = EmptyMap

NextGuard ==
    /\ \/ \E d \in {"d1", "d2"} : addMockDevice(d, TRUE, 0, FALSE, <<>>)
       \/ \E d \in {"d1", "d2"} : connectToDevice(d, 0)
       \/ simulateDeviceDisconnection("d1", Null)
       \/ CanSubscribe(MaxWatchers) /\ onCharacteristicWrite("d1", "s", "c")
       \/ CanSubscribe(MaxWatchers) /\ monitorCharacteristicForDevice("d1", "s", "c")
       \/ \E t \in replayTimers : monitorReplay(t)
       \/ readCharacteristicForDevice("d1", "s", "c")
       \/ writeCharacteristicWithResponseForDevice("d1", "s", "c", "v1")
       \/ writeCharacteristicWithoutResponseForDevice("d1", "s", "c", "v1")
       \/ readDescriptorForCharacteristic("c", "s", "d1", "desc")
       \/ writeDescriptorForCharacteristic("c", "s", "d1", "desc", "v3")
       \/ requestMTUForDevice("d1", 100)
       \/ discoverAllServicesAndCharacteristicsForDevice("d1")
    /\ Track

SpecGuard == InitGuard /\ [][NextGuard]_vars

\* MTU negotiation: one device, caps set and never set, requests below and
\* above them at both call sites, with MTU listeners watching.
Caps == {0, 150}
RequestedMTUs == {100, 200, 600}

InitMTU ==
    /\ Init
    /\ restoreStateIdentifier = Null
    /\ ~restoreStateFunction
    /\ restoredStateStore = EmptyMap

NextMTU ==
    /\ \/ addMockDevice("d1", TRUE, 0, FALSE, <<>>)
       \/ \E cap \in Caps : setDeviceMaxMTU("d1", cap)
       \/ \E m \in RequestedMTUs \cup {0} : connectToDevice("d1", m)
       \/ \E p \in pendingConnects : connectToDeviceResume(p)
       \/ \E ms \in {0, 5} : setConnectionDelay("d1", ms)
       \/ \E m \in RequestedMTUs : requestMTUForDevice("d1", m)
       \/ simulateDeviceDisconnection("d1", Null)
       \/ CanSubscribe(MaxWatchers) /\ onMTUChanged("d1")
    /\ Track

SpecMTU == InitMTU /\ [][NextMTU]_vars

\* Notifying: two characteristics of one connected device with their monitor
\* listeners and notification timers; the first is given values, empty and not.
NotifyChars == {"c", "c2"}

InitNotify ==
    /\ Init
    /\ restoreStateIdentifier = Null
    /\ ~restoreStateFunction
    /\ restoredStateStore = EmptyMap

NextNotify ==
    /\ \/ addMockDevice("d1", TRUE, 0, FALSE, <<>>)
       \/ connectToDevice("d1", 0)
       \/ \E c \in NotifyChars :
              CanSubscribe(MaxSubs) /\ monitorCharacteristicForDevice("d1", "s", c)
       \/ \E i \in DOMAIN subs : remove(i)
       \/ \E t \in replayTimers : monitorReplay(t)
       \/ \E value \in {"v1", ""}, notify \in BOOLEAN :
              setCharacteristicValue("d1", "s", "c", value, notify)
       \/ \E c \in NotifyChars : startSimulatedNotifications("d1", "s", c)
       \/ \E c \in NotifyChars : stopSimulatedNotifications("d1", "s", c)
       \/ \E c \in NotifyChars : notificationTick(getCharacteristicKey("d1", "s", c))
    /\ Track

SpecNotify == InitNotify /\ [][NextNotify]_vars

\* Fault injection: one device, an error injected on each surface, the
\* operations that meet the errors, and the call that clears them all.
InitFaults ==
    /\ Init
    /\ restoreStateIdentifier = Null
    /\ ~restoreStateFunction
    /\ restoredStateStore = EmptyMap

NextFaults ==
    /\ \/ addMockDevice("d1", TRUE, 0, FALSE, <<>>)
       \/ connectToDevice("d1", 0)
       \/ cancelDeviceConnection("d1")
       \/ simulateScanError("e0")
       \/ simulateConnectionError("d1", "e1")
       \/ simulateDisconnectionError("d1", "e2")
       \/ simulateCharacteristicReadError("d1", "s", "c", "e3")
       \/ simulateWriteWithResponseError("d1", "s", "c", "e4")
       \/ simulateWriteWithoutResponseError("d1", "s", "c", "e5")
       \/ simulateDescriptorError("d1", "s", "c", "desc", "e6")
       \/ clearAllSimulatedErrors
       \/ readCharacteristicForDevice("d1", "s", "c")
       \/ writeCharacteristicWithResponseForDevice("d1", "s", "c", "v1")
       \/ writeCharacteristicWithoutResponseForDevice("d1", "s", "c", "v1")
       \/ readDescriptorForCharacteristic("c", "s", "d1", "desc")
    /\ Track

SpecFaults == InitFaults /\ [][NextFaults]_vars

\* Restoring: managers built with and without a restoration identifier and
\* callback, over a store that is empty or holds an earlier snapshot; two
\* devices connect and disconnect while the callback is due and afterwards.
NextRestore ==
    /\ \/ \E d \in {"d1", "d2"} : addMockDevice(d, TRUE, 0, FALSE, <<>>)
       \/ \E d \in {"d1", "d2"} : connectToDevice(d, 0)
       \/ \E d \in {"d1", "d2"} : cancelDeviceConnection(d)
       \/ simulateDeviceDisconnection("d1", Null)
       \/ restoreState
    /\ Track

SpecRestore == Init /\ [][NextRestore]_vars /\ WF_vars(restoreState /\ Track)

\* Destroying: two devices with connection listeners, a monitored
\* characteristic with its value, replay and notification timer, and a scan,
\* all of which destroy() meets in whatever state they are.
InitDestroy ==
    /\ Init
    /\ restoreStateIdentifier = Null
    /\ ~restoreStateFunction
    /\ restoredStateStore = EmptyMap

NextDestroy ==
    /\ \/ \E d \in {"d1", "d2"} : addMockDevice(d, TRUE, 0, FALSE, <<>>)
       \/ \E d \in {"d1", "d2"} : connectToDevice(d, 0)
       \/ \E d \in {"d1", "d2"} : CanSubscribe(MaxWatchers) /\ onDeviceDisconnected(d)
       \/ CanSubscribe(MaxWatchers) /\ monitorCharacteristicForDevice("d1", "s", "c")
       \/ \E t \in replayTimers : monitorReplay(t)
       \/ setCharacteristicValue("d1", "s", "c", "v1", TRUE)
       \/ startSimulatedNotifications("d1", "s", "c")
       \/ notificationTick(getCharacteristicKey("d1", "s", "c"))
       \/ CanSubscribe(MaxWatchers) /\ startDeviceScan(<<>>, FALSE)
       \/ \E i \in 1..2, deliver \in BOOLEAN : scanTick(i, deliver)
       \/ destroy
    /\ Track

SpecDestroy == InitDestroy /\ [][NextDestroy]_vars

\* Disconnecting a configured device: d1 with service metadata, values, error
\* and delay records and an MTU cap, d2 beside it, both discovered, and the
\* two ways of disconnecting one of them.
InitFrame ==
    /\ Init
    /\ restoreStateIdentifier = "rid"
    /\ ~restoreStateFunction
    /\ restoredStateStore = EmptyMap

NextFrame ==
    /\ \/ addMockDevice("d1", TRUE, 0, TRUE, <<"s">>)
       \/ addMockDevice("d2", TRUE, 0, FALSE, <<>>)
       \/ \E d \in {"d1", "d2"} : connectToDevice(d, 0)
       \/ \E d \in {"d1", "d2"} : discoverAllServicesAndCharacteristicsForDevice(d)
       \/ \E p \in pendingDiscoveries : discoverResume(p)
       \/ setDeviceMaxMTU("d1", 150)
       \/ setCharacteristicValueForReading("d1", "s", "c", "v0")
       \/ setDescriptorValue("d1", "s", "c", "desc", "v1")
       \/ simulateCharacteristicReadError("d1", "s", "c", "e1")
       \/ setWriteWithResponseDelay("d1", "s", "c", 5)
       \/ \E d \in {"d1", "d2"} : cancelDeviceConnection(d)
       \/ \E d \in {"d1", "d2"} : simulateDeviceDisconnection(d, Null)
    /\ Track

SpecFrame == InitFrame /\ [][NextFrame]_vars

\* Adapter state: state listeners registering with and without the replay of
\* the current state and releasing, the adapter changing state, with a device
\* connecting and a connection listener beside them.
InitState ==
    /\ Init
    /\ restoreStateIdentifier = Null
    /\ ~restoreStateFunction
    /\ restoredStateStore = EmptyMap

NextState ==
    /\ \/ \E emitCurrentState \in BOOLEAN :
              CanSubscribe(MaxSubs) /\ onStateChange(emitCurrentState)
       \/ CanSubscribe(MaxSubs) /\ onDeviceDisconnected("d1")
       \/ \E i \in DOMAIN subs : remove(i)
       \/ \E st \in {"PoweredOn", "PoweredOff", "Resetting"} : setState(st)
       \/ addMockDevice("d1", TRUE, 0, FALSE, <<>>)
       \/ connectToDevice("d1", 0)
    /\ Track

SpecState == InitState /\ [][NextState]_vars

\* Settling: reads, acknowledged writes and connections of one device waiting
\* on their delays while the device disconnects or is deregistered, the adapter
\* changes state, the injected errors are cleared and stopDeviceScan is called.
\* A timer that was armed fires: each continuation is weakly fair.
SuspendedOperations ==
    LET key == getCharacteristicKey("d1", "s", "c")
        Waiting(op, err, val) == [op |-> op, key |-> key, err |-> err, val |-> val]
        Reading(err, val) == [op |-> "readCharacteristicForDevice", key |-> key,
                              err |-> err, val |-> val, descriptors |-> NoDescriptors]
    IN  {Reading(Null, Null),
         Reading(Null, "v1"),
         Reading("e1", Null),
         Waiting("writeCharacteristicWithResponseForDevice", Null, "v1"),
         Waiting("writeCharacteristicWithResponseForDevice", "e2", Null)}

SuspendedConnects ==
    [d : {"d1"}, requestMTU : {0}, obj : 1..(MaxPending + 1), callOK : {TRUE}]

InitSettle ==
    /\ Init
    /\ restoreStateIdentifier = Null
    /\ ~restoreStateFunction
    /\ restoredStateStore = EmptyMap

NextSettle ==
    /\ \/ addMockDevice("d1", TRUE, 0, FALSE, <<>>)
       \/ removeMockDevice("d1")
       \/ setConnectionDelay("d1", 5)
       \/ connectToDevice("d1", 0)
       \/ \E p \in pendingConnects : connectToDeviceResume(p)
       \/ simulateDeviceDisconnection("d1", Null)
       \/ \E st \in {"PoweredOn", "PoweredOff"} : setState(st)
       \/ stopDeviceScan
       \/ readCharacteristicForDevice("d1", "s", "c")
       \/ writeCharacteristicWithResponseForDevice("d1", "s", "c", "v1")
       \/ \E p \in pendingOps : operationResume(p)
       \/ CanInject /\ simulateCharacteristicReadError("d1", "s", "c", "e1")
       \/ CanInject /\ setCharacteristicReadDelay("d1", "s", "c", 5)
       \/ CanInject /\ simulateWriteWithResponseError("d1", "s", "c", "e2")
       \/ CanInject /\ setWriteWithResponseDelay("d1", "s", "c", 5)
       \/ clearAllSimulatedErrors
    /\ Track

TimersFire ==
    /\ \A p \in SuspendedOperations : WF_vars(operationResume(p) /\ Track)
    /\ \A q \in SuspendedConnects : WF_vars(connectToDeviceResume(q) /\ Track)

SpecSettle == InitSettle /\ [][NextSettle]_vars /\ TimersFire

\* Values in time: one characteristic of a connected device written, set and
\* read, with and without delays, the values including the empty string.
WrittenValues == {"v1", "v2", ""}

InitValues ==
    /\ Init
    /\ restoreStateIdentifier = Null
    /\ ~restoreStateFunction
    /\ restoredStateStore = EmptyMap

NextValues ==
    /\ \/ addMockDevice("d1", TRUE, 0, FALSE, <<>>)
       \/ connectToDevice("d1", 0)
       \/ CanInject /\ setCharacteristicReadDelay("d1", "s", "c", 5)
       \/ CanInject /\ setWriteWithResponseDelay("d1", "s", "c", 5)
       \/ readCharacteristicForDevice("d1", "s", "c")
       \/ \E v \in WrittenValues : writeCharacteristicWithResponseForDevice("d1", "s", "c", v)
       \/ \E v \in WrittenValues : setCharacteristicValue("d1", "s", "c", v, FALSE)
       \/ \E p \in pendingOps : operationResume(p)
    /\ Track

SpecValues == InitValues /\ [][NextValues]_vars

\* Scanning with listeners that call back: scans whose listener stops the
\* scan while the burst of startDeviceScan or of setDiscoveryInterval is being
\* delivered, beside scans whose listener does not.
InitReentrant ==
    /\ Init
    /\ restoreStateIdentifier = Null
    /\ ~restoreStateFunction
    /\ restoredStateStore = EmptyMap

NextReentrant ==
    /\ \/ \E d \in {"d1", "d2"} : addMockDevice(d, TRUE, 0, FALSE, <<>>)
       \/ removeMockDevice("d1")
       \/ CanSubscribe(MaxWatchers) /\ startDeviceScan(<<>>, TRUE)
       \/ \E stopAt \in 1..2 :
            CanSubscribe(MaxWatchers) /\ startDeviceScanListenerStops(<<>>, TRUE, stopAt)
       \/ stopDeviceScan
       \/ \E i \in 1..2 : scanTick(i, TRUE)
       \/ \E ms \in {DefaultDiscoveryInterval, 100} : setDiscoveryInterval(ms)
       \/ \E stopAt \in 1..2 : setDiscoveryIntervalListenerStops(100, stopAt)
    /\ Track

SpecReentrant == InitReentrant /\ [][NextReentrant]_vars

\* Service metadata: one device registered again and again with different
\* service lists and with none, deregistered, connected and discovered, and
\* the characteristics of its services asked for.
ServiceUUIDs == {"s", "t"}
ServiceLists == {<<>>, <<"s">>, <<"s", "t">>}

InitMetadata ==
    /\ Init
    /\ restoreStateIdentifier = Null
    /\ ~restoreStateFunction
    /\ restoredStateStore = EmptyMap

NextMetadata ==
    /\ \/ \E uuids \in ServiceLists : addMockDevice("d1", TRUE, 0, TRUE, uuids)
       \/ addMockDevice("d1", TRUE, 0, FALSE, <<>>)
       \/ removeMockDevice("d1")
       \/ connectToDevice("d1", 0)
       \/ simulateDeviceDisconnection("d1", Null)
       \/ discoverAllServicesAndCharacteristicsForDevice("d1")
       \/ \E p \in pendingDiscoveries : discoverResume(p)
       \/ servicesForDevice("d1")
       \/ \E s \in ServiceUUIDs : characteristicsForService(s, "d1")
    /\ Track

SpecMetadata == InitMetadata /\ [][NextMetadata]_vars

\* Order of deliveries: one characteristic of a connected device given values,
\* each value stored once, with monitor listeners registering and their
\* replays of the current value falling due.
OrderedValues == {"v1", "v2", "v3"}

InitOrder ==
    /\ Init
    /\ restoreStateIdentifier = Null
    /\ ~restoreStateFunction
    /\ restoredStateStore = EmptyMap

NextOrder ==
    /\ \/ addMockDevice("d1", TRUE, 0, FALSE, <<>>)
       \/ connectToDevice("d1", 0)
       \/ CanSubscribe(MaxWatchers) /\ monitorCharacteristicForDevice("d1", "s", "c")
       \/ \E t \in replayTimers : monitorReplay(t)
       \/ \E value \in OrderedValues \ Range(storeOrder), notify \in BOOLEAN :
              setCharacteristicValue("d1", "s", "c", value, notify)
    /\ TrackOrder

SpecOrder == InitOrder /\ [][NextOrder]_vars

\* Descriptors: a device whose metadata declares descriptors, with live
\* descriptor values set and written (the empty string among them), and the
\* two reads that report a descriptor's value.
DescriptorUUIDs == {"2902", "2901"}
DescriptorWrites == {"dv", ""}

InitDescriptors ==
    /\ Init
    /\ restoreStateIdentifier = Null
    /\ ~restoreStateFunction
    /\ restoredStateStore = EmptyMap

NextDescriptors ==
    /\ \/ addMockDevice("d1", TRUE, 0, TRUE, <<"h">>)
       \/ removeMockDevice("d1")
       \/ connectToDevice("d1", 0)
       \/ simulateDeviceDisconnection("d1", Null)
       \/ \E desc \in DescriptorUUIDs, value \in DescriptorWrites :
              \/ setDescriptorValue("d1", "h", "c", desc, value)
              \/ writeDescriptorForCharacteristic("c", "h", "d1", desc, value)
       \/ \E desc \in DescriptorUUIDs : readDescriptorForCharacteristic("c", "h", "d1", desc)
       \/ readCharacteristicForDevice("d1", "h", "c")
    /\ Track

SpecDescriptors == InitDescriptors /\ [][NextDescriptors]_vars

\* ---------------------------------------------------------------- claims
\* the listeners of live subscriptions of a kind under a key
Live(sb, kind, key) ==
    {i \in DOMAIN sb : sb[i].kind = kind /\ sb[i].key = key /\ ~sb[i].removed}

\* the listeners the last operation invoked
Invoked == {fired[i].l : i \in DOMAIN fired}

\* what the listener Maps hold, by content
Registered ==
    [monitor |-> [k \in DOMAIN monitoredCharacteristics |->
                      arrays[monitoredCharacteristics[k]]],
     connection |-> [k \in DOMAIN connectionListeners |-> arrays[connectionListeners[k]]],
     mtu |-> [k \in DOMAIN mtuListeners |-> arrays[mtuListeners[k]]],
     state |-> stateListeners,
     write |-> writeListeners,
     timers |-> intervalTimers]

\* C1: a notification of the monitor listeners of a key, the connection
\* listeners of a device or the MTU listeners of a device reaches exactly the
\* listeners whose subscription has not been removed.
C1_NotifiedAreTheLive ==
    [][/\ (result'.op = "setCharacteristicValue"
             => Invoked' = Live(subs', "monitor", result'.arg))
       /\ (result'.op = "simulateDeviceDisconnection" /\ isDeviceConnected(result'.arg.d)
             => Invoked' = Live(subs', "connection", result'.arg.d))
       /\ (result'.op = "requestMTUForDevice" /\ result'.status = "resolved"
             => Invoked' = Live(subs', "mtu", result'.arg))]_vars

\* C2: remove on a subscription already released changes no registration and
\* disarms no notification timer.
C2_SecondRemoveChangesNothing ==
    [][result'.op = "remove" /\ subs[result'.arg].removed
         => Registered' = Registered]_vars

\* C3: a monitor listener is not invoked once its subscription's remove has
\* returned, the replay scheduled at registration included.
C3_RemovedMonitorNeverInvoked ==
    \A i \in DOMAIN fired :
        fired[i].kind = "monitor" => ~subs[fired[i].l].removed


\* C4: a connectToDevice call made while the adapter is not PoweredOn, or the
\* device is unregistered, not connectable or has a connection-error record,
\* rejects, leaves the connected set, the registry (the device's MTU), the
\* snapshot and the waiting calls as they were and invokes no listener; a call
\* that resolves after its delay was made when none of these held.
C4_ConnectOnlyWhenCallTimeOK ==
    [][/\ (result'.op = "connectToDevice" /\ ~CallTimeOK(result'.arg)
            => /\ result'.status = "rejected"
               /\ connectedDevices' = connectedDevices
               /\ discoveredDevices' = discoveredDevices
               /\ restoredStateStore' = restoredStateStore
               /\ pendingConnects' = pendingConnects
               /\ fired' = <<>>)
       /\ (result'.op = "connectToDevice.resume"
            => \A p \in pendingConnects \ pendingConnects' : p.callOK)]_vars

\* a connect of a device that is not connectable was rejected while MTU
\* listeners were registered for it
C4_Witness ==
    /\ result.op = "connectToDevice"
    /\ result.err = "Device is not connectable"
    /\ Has(mtuListeners, "d1")
    /\ ~isDeviceConnected("d1")

\* the adapter is on and d is registered and connectable
OtherwiseConnectable(d) ==
    /\ currentState = "PoweredOn"
    /\ DevHas(discoveredDevices, d)
    /\ DevGet(discoveredDevices, d).isConnectable # FALSE

\* connectToDevice does not clear the record, the clear operations do, and
\* without a record an otherwise connectable device connects
RecordClearedOnlyByClear ==
    /\ (result'.op \in {"connectToDevice", "connectToDevice.resume"}
         => connectionErrors' = connectionErrors)
    /\ (result'.op = "clearConnectionError" => ~Has(connectionErrors', result'.arg))
    /\ (result'.op = "clearAllSimulatedErrors" => connectionErrors' = EmptyMap)
    /\ (result'.op = "connectToDevice" /\ ~Has(connectionErrors, result'.arg)
            /\ OtherwiseConnectable(result'.arg)
         => result'.status \in {"resolved", "pending"})

\* C5 as stated: while a connection-error record exists for a device, every
\* connectToDevice call for it rejects with exactly that error and the record
\* stays; once cleared, an otherwise connectable device connects.
C5_RecordAlwaysRejectsWithIt ==
    [][/\ (result'.op = "connectToDevice" /\ Has(connectionErrors, result'.arg)
            => /\ result'.status = "rejected"
               /\ result'.err = connectionErrors[result'.arg])
       /\ RecordClearedOnlyByClear]_vars

\* C5, amended: while a connection-error record exists for a device, every
\* connectToDevice call for it made with the adapter on and the device
\* registered and connectable rejects with exactly that error and the record
\* stays; once cleared, an otherwise connectable device connects.
C5_RecordRejectsConnectableWithIt ==
    [][/\ (result'.op = "connectToDevice" /\ Has(connectionErrors, result'.arg)
                /\ OtherwiseConnectable(result'.arg)
            => /\ result'.status = "rejected"
               /\ result'.err = connectionErrors[result'.arg])
       /\ (result'.op = "connectToDevice" /\ Has(connectionErrors, result'.arg)
            => result'.status = "rejected")
       /\ RecordClearedOnlyByClear]_vars

\* a connect was rejected with the record that replaced an earlier one
C5_Witness ==
    /\ result.op = "connectToDevice"
    /\ result.status = "rejected"
    /\ Has(connectionErrors, "d1")
    /\ result.err = "e2"
    /\ connectionErrors["d1"] = "e2"

\* every listener of ls was invoked exactly once by calls, each time with err,
\* and calls invoked nothing else
EachOnceWith(calls, ls, err) ==
    /\ Len(calls) = Len(ls)
    /\ \A i \in DOMAIN ls : Cardinality({j \in DOMAIN calls : calls[j].l = ls[i]}) = 1
    /\ \A j \in DOMAIN calls : calls[j].kind = "connection" /\ calls[j].err = err

\* C6: cancelDeviceConnection on a connected device that has a
\* disconnection-error record invokes each connection listener of the device
\* exactly once with that error, rejects with the same error and leaves the
\* device connected, its discovered-services entry and the snapshot unchanged.
C6_FailedCancelKeepsConnection ==
    [][result'.op = "cancelDeviceConnection" /\ isDeviceConnected(result'.arg)
            /\ Has(disconnectionErrors, result'.arg)
         => /\ result'.status = "rejected"
            /\ result'.err = disconnectionErrors[result'.arg]
            /\ EachOnceWith(fired', ListenersOf(connectionListeners, arrays, result'.arg),
                            disconnectionErrors[result'.arg])
            /\ SetHas(connectedDevices', result'.arg)
            /\ discoveredServices' = discoveredServices
            /\ restoredStateStore' = restoredStateStore]_vars

\* C7: once a device has left the connected set it is not connected and
\* servicesForDevice rejects for it, and it keeps rejecting, a reconnect
\* included, until a discovery is run for the device again.
C7_RejectsUntilDiscoveredAgain ==
    \A d \in DisDevices :
        ServicesForDeviceError(d) = Null
            => isDeviceConnected(d) /\ d \in discoveryRunSince

\* C8: simulateDeviceDisconnection on a connected device invokes each of its
\* connection listeners exactly once with the supplied error, or with
\* 'Simulated disconnection' when none is supplied, never with null; on a device
\* that is not connected it invokes no listener and changes no state.
C8_SimulatedDisconnectionNotifies ==
    [][result'.op = "simulateDeviceDisconnection"
         => IF isDeviceConnected(result'.arg.d)
            THEN /\ EachOnceWith(fired',
                        ListenersOf(connectionListeners, arrays, result'.arg.d),
                        IF result'.arg.error # Null THEN result'.arg.error
                        ELSE "Simulated disconnection")
                 /\ \A j \in DOMAIN fired' : fired'[j].err # Null
                 /\ ~SetHas(connectedDevices', result'.arg.d)
            ELSE /\ fired' = <<>>
                 /\ UNCHANGED <<stateVars, scanVars, registryVars, connVars,
                                listenerVars, charVars, ioVars, restoreVars>>]_vars

\* a disconnection simulated without an error reached two listeners with the default
C8_Witness ==
    /\ result.op = "simulateDeviceDisconnection"
    /\ result.arg.error = Null
    /\ ~isDeviceConnected(result.arg.d)
    /\ Len(fired) = 2
    /\ fired[1].l # fired[2].l
    /\ \A j \in DOMAIN fired : fired[j].err = "Simulated disconnection"

\* C9: when setState('PoweredOff') returns the connected set is empty and every
\* connection listener of every device that was connected at the call has been
\* invoked exactly once, with 'Bluetooth powered off'.
C9_PoweredOffDisconnectsAll ==
    [][result'.op = "setState" /\ result'.arg = "PoweredOff"
         => /\ connectedDevices' = <<>>
            /\ \A d \in Range(connectedDevices) :
                 \A l \in Range(ListenersOf(connectionListeners, arrays, d)) :
                    /\ Cardinality({j \in DOMAIN fired' : fired'[j].l = l}) = 1
                    /\ \A j \in DOMAIN fired' :
                         fired'[j].l = l => fired'[j].err = "Bluetooth powered off"]_vars

\* powering off disconnected two devices and reached a listener of each
C9_Witness ==
    /\ result.op = "setState"
    /\ result.arg = "PoweredOff"
    /\ connectedDevices = <<>>
    /\ Len(fired) = 2
    /\ {fired[j].val : j \in DOMAIN fired} = {"d1", "d2"}
    /\ \A j \in DOMAIN fired : fired[j].err = "Bluetooth powered off"

\* C10: a setState to a state other than PoweredOn made while a scan is active
\* leaves the manager idle, its scan listener cleared and its scan timer
\* cancelled; a scan callback only ever goes to the listener of the scan that
\* is active, so the former listener receives none.
C10_SetStateStopsScan ==
    [][/\ (result'.op = "setState" /\ result'.arg # "PoweredOn" /\ isScanning
            => /\ ~isScanning'
               /\ scanListener' = 0
               /\ scanInterval' = <<>>)
       /\ \A j \in DOMAIN fired' :
            fired'[j].kind = "scan"
                => isScanning' /\ scanListener' # 0 /\ fired'[j].l = scanListener']_vars

\* a setState to Resetting ended a scan that had an error waiting for its next tick
C10_Witness ==
    /\ result.op = "setState"
    /\ result.arg = "Resetting"
    /\ scanEnded
    /\ scanErrorSimulation # Null
    /\ discoveredDevices # <<>>
    /\ ~isScanning /\ scanListener = 0 /\ scanInterval = <<>>

\* C11: a startDeviceScan that starts a scan delivers, before it returns, every
\* registered device exactly once to its listener, in registration order and
\* whatever the UUID filter; nothing else is delivered by the call.
C11_BurstIsTheRegistry ==
    [][result'.op = "startDeviceScan" /\ result'.status = "returned"
         => /\ Len(fired') = Len(discoveredDevices)
            /\ \A i \in DOMAIN discoveredDevices :
                 fired'[i] = Call("scan", scanListener', Null, discoveredDevices[i].id)]_vars

\* a scan filtered on a UUID no device advertises delivered d2 then d1
C11_Witness ==
    /\ result.op = "startDeviceScan"
    /\ result.status = "returned"
    /\ scanUUIDs = <<"x">>
    /\ Len(fired) = 2
    /\ fired[1].val = "d2"
    /\ fired[2].val = "d1"

\* the scan callbacks of the last operation that carry an error
ScanErrorsFired == {j \in DOMAIN fired : fired[j].kind = "scan" /\ fired[j].err # Null}

\* C12: an armed scan error reaches the listener on the first tick of an active
\* scan after it was armed, alone and with a null device, and is disarmed by
\* that delivery; only simulateScanError arms one, and a tick without an armed
\* error, like every other operation, delivers no error.
C12_ScanErrorIsOneShot ==
    [][/\ (result'.op = "scanInterval.tick" /\ isScanning /\ scanListener # 0
                /\ scanErrorSimulation # Null
            => /\ fired' = <<Call("scan", scanListener, scanErrorSimulation, Null)>>
               /\ scanErrorSimulation' = Null)
       /\ (ScanErrorsFired' # {}
            => result'.op = "scanInterval.tick" /\ scanErrorSimulation # Null)
       /\ (scanErrorSimulation' # Null /\ scanErrorSimulation' # scanErrorSimulation
            => result'.op = "simulateScanError")]_vars

\* a tick delivered the armed error and nothing else, and disarmed it
C12_Witness ==
    /\ result.op = "scanInterval.tick"
    /\ fired = <<Call("scan", scanListener, "e1", Null)>>
    /\ scanErrorSimulation = Null
    /\ isScanning
    /\ discoveredDevices # <<>>

\* C13: once stopDeviceScan has returned, the listener of the stopped scan is
\* not invoked again, by a tick or by a later scan, and while no scan has been
\* started since, no timer is armed and no operation delivers a scan callback.
C13_StoppedListenerIsSilent ==
    /\ \A j \in DOMAIN fired : fired[j].kind = "scan" => fired[j].l \notin stoppedListeners
    /\ ~isScanning => scanInterval = <<>> /\ scanListener = 0
    /\ (\E j \in DOMAIN fired : fired[j].kind = "scan") => isScanning

\* a second scan delivers to its listener after the first was stopped
C13_Witness ==
    /\ stoppedListeners # {}
    /\ isScanning
    /\ result.op = "scanInterval.tick"
    /\ fired # <<>>
    /\ fired[1].l = scanListener

\* C14: for a connected device servicesForDevice rejects with 'Services not
\* discovered for device' in every state in which no discovery has completed
\* since the device last entered the connected set; connecting never changes
\* the discovered-services cache.
C14_DiscoveryIsRequired ==
    \A d \in DisDevices :
        isDeviceConnected(d) /\ d \notin discoveryDoneSince
            => ServicesForDeviceError(d) = "Services not discovered for device"

IOKeys == {getCharacteristicKey("d1", "s", c) : c \in IOChars}

OperationKinds == {"read", "writeWithResponse", "writeWithoutResponse"}

\* the operation kind an operation belongs to or injects for
KindOf(op) ==
    IF op \in {"simulateCharacteristicReadError", "clearCharacteristicReadError",
               "setCharacteristicReadDelay", "readCharacteristicForDevice"}
    THEN "read"
    ELSE IF op \in {"simulateWriteWithResponseError", "clearWriteWithResponseError",
                    "setWriteWithResponseDelay",
                    "writeCharacteristicWithResponseForDevice"}
    THEN "writeWithResponse"
    ELSE IF op \in {"simulateWriteWithoutResponseError", "clearWriteWithoutResponseError",
                    "setWriteWithoutResponseDelay",
                    "writeCharacteristicWithoutResponseForDevice"}
    THEN "writeWithoutResponse"
    ELSE Null

IOOperations ==
    {"readCharacteristicForDevice", "writeCharacteristicWithResponseForDevice",
     "writeCharacteristicWithoutResponseForDevice"}

\* the error an operation of a kind on a key meets and the delay it waits
InjectedOutcome(kind, key) ==
    IF kind = "read"
    THEN [err |-> ErrorOf(readErrors, key), delay |-> DelayOf(readDelays, key)]
    ELSE [err |-> ErrorOf(WriteErrorsOf(kind = "writeWithResponse"), key),
          delay |-> DelayOf(WriteDelaysOf(kind = "writeWithResponse"), key)]

\* C15: injecting, replacing or clearing an error or a delay for one operation
\* kind on one key changes the error met and the delay waited by no operation
\* of another kind on that key and by no operation on another key, nor any
\* stored value; an operation on a connected device meets the error and waits
\* the delay recorded for its own kind and key.
C15_InjectionIsScoped ==
    [][/\ (KindOf(result'.op) # Null /\ result'.op \notin IOOperations
            => /\ \A kind \in OperationKinds, key \in IOKeys :
                    kind # KindOf(result'.op) \/ key # result'.arg
                        => InjectedOutcome(kind, key)' = InjectedOutcome(kind, key)
               /\ UNCHANGED <<characteristicValues, connectedDevices, pendingOps>>)
       /\ (result'.op \in IOOperations /\ isDeviceConnected("d1")
            => LET o == InjectedOutcome(KindOf(result'.op), result'.arg)
               IN  IF o.delay > 0
                   THEN /\ result'.status = "pending"
                        /\ \E p \in pendingOps' : /\ p.op = result'.op
                                                  /\ p.key = result'.arg
                                                  /\ p.err = o.err
                   ELSE /\ result'.err = o.err
                        /\ result'.status = IF o.err # Null THEN "rejected"
                                            ELSE "resolved")]_vars

\* a delay was set for writes with response on a key that holds an error for
\* writes without response
C15_Witness ==
    /\ result.op = "setWriteWithResponseDelay"
    /\ Has(writeWithResponseDelays, result.arg)
    /\ Has(writeWithoutResponseErrors, result.arg)
    /\ ~Has(writeWithoutResponseDelays, result.arg)
    /\ isDeviceConnected("d1")

\* the error map the code consults for a write variant
InjectedWriteError(op, key) ==
    IF op = "writeCharacteristicWithResponseForDevice"
    THEN ErrorOf(writeWithResponseErrors, key)
    ELSE ErrorOf(writeWithoutResponseErrors, key)

\* C16: a write on a connected device that meets an injected error of its kind
\* fails with that error, at once or when its delay has passed, leaves every
\* stored value as it was and invokes no write observer; a read that resolves
\* returns the value stored at its call, so the value from before the failed
\* write.
C16_FailedWriteStoresNothing ==
    [][/\ (result'.op \in IOOperations \ {"readCharacteristicForDevice"}
                /\ isDeviceConnected("d1")
                /\ InjectedWriteError(result'.op, result'.arg) # Null
            => /\ characteristicValues' = characteristicValues
               /\ fired' = <<>>
               /\ \/ /\ result'.status = "rejected"
                     /\ result'.err = InjectedWriteError(result'.op, result'.arg)
                  \/ /\ result'.status = "pending"
                     /\ \E p \in pendingOps' :
                            /\ p.op = result'.op
                            /\ p.err = InjectedWriteError(result'.op, result'.arg))
       /\ (result'.op \in {op \o ".resume" : op \in IOOperations}
            => /\ characteristicValues' = characteristicValues
               /\ fired' = <<>>
               /\ \E p \in pendingOps \ pendingOps' :
                     result'.err = p.err /\ result'.val = p.val)
       /\ (result'.op = "readCharacteristicForDevice" /\ result'.status = "resolved"
            => result'.val = CurrentValue(result'.arg))]_vars

\* a write without response failed on a key that holds a value and has a write
\* observer, while writes with response have no error on it
C16_Witness ==
    /\ result.op = "writeCharacteristicWithoutResponseForDevice"
    /\ result.status = "rejected"
    /\ result.err = "e3"
    /\ Has(writeListeners, result.arg)
    /\ CurrentValue(result.arg) = "v1"
    /\ ~Has(writeWithResponseErrors, result.arg)

\* the operations that require a connection
ConnectedOperations ==
    IOOperations \cup
    {"monitorCharacteristicForDevice", "readDescriptorForCharacteristic",
     "writeDescriptorForCharacteristic", "requestMTUForDevice",
     "discoverAllServicesAndCharacteristicsForDevice"}

\* C17: an operation that requires a connection, called for a device that is
\* not in the connected set, fails with a not-connected error, invokes nothing
\* and changes no state: no value stored, no listener registered, no MTU
\* changed, no cache entry made, nothing left waiting.
C17_NotConnectedChangesNothing ==
    [][result'.op \in ConnectedOperations /\ ~SetHas(connectedDevices, "d1")
         => /\ result'.status \in {"rejected", "threw"}
            /\ result'.err \in {"Device is not connected", "Device not connected"}
            /\ fired' = <<>>
            /\ UNCHANGED <<stateVars, scanVars, registryVars, connVars, listenerVars,
                           charVars, ioVars, restoreVars>>]_vars

\* a write to d1 was refused while d2 was connected and d1, connected earlier,
\* had a stored value, a write observer and a listener
C17_Witness ==
    /\ result.op = "writeCharacteristicWithResponseForDevice"
    /\ result.err = "Device is not connected"
    /\ connectedDevices = <<"d2">>
    /\ DevHas(discoveredDevices, "d1")
    /\ CurrentValue(result.arg) = "v1"
    /\ Has(writeListeners, result.arg)
    /\ Len(subs) = 2

\* the cap of a device: what setDeviceMaxMTU stored for it, 512 when never set
CapOf(d) == IF Has(deviceMaxMTUs, d) THEN deviceMaxMTUs[d] ELSE DefaultMaxMTU

\* the calls of MTU listeners among the calls the last operation made
MTUCalls(calls) == SelectSeq(calls, LAMBDA call : call.kind = "mtu")

\* C18: requestMTUForDevice, and connectToDevice with a requestMTU option,
\* set the MTU of the device to min(requested, cap), the cap being the one
\* setDeviceMaxMTU stored and 512 when none was, and call each MTU listener of
\* the device once with that value.
C18_MTUIsMinOfRequestedAndCap ==
    [][(/\ result'.op \in {"requestMTUForDevice", "connectToDevice", "connectToDevice.resume"}
        /\ result'.status = "resolved"
        /\ result'.requested # 0)
         => LET d == result'.arg
                actualMTU == Min(result'.requested, CapOf(d))
            IN  /\ DevHas(discoveredDevices', d)
                /\ DevGet(discoveredDevices', d).mtu = actualMTU
                /\ MTUCalls(fired') =
                       Calls("mtu", ListenersOf(mtuListeners, arrays, d), Null, actualMTU)]_vars

\* C19: monitorCharacteristicForDevice on a key with a stored value V calls
\* nothing before it returns and arms one replay for the new listener with V;
\* the replay calls that listener alone, once, with (null, V); and no tick of
\* a notification timer reaches a listener whose replay is still to come.
C19_ReplayOncePrecedingTicks ==
    [][/\ (result'.op = "monitorCharacteristicForDevice" /\ result'.status = "returned"
              /\ Has(characteristicValues, result'.arg)
            => /\ fired' = <<>>
               /\ replayTimers' = replayTimers \cup
                      {[l |-> Len(subs'), val |-> characteristicValues[result'.arg],
                        early |-> FALSE]}
               /\ \A t \in replayTimers : t.l # Len(subs'))
       /\ (result'.op = "monitorCharacteristicForDevice.replay"
            => \E t \in replayTimers :
                   /\ replayTimers' = replayTimers \ {t}
                   /\ fired' = <<Call("monitor", t.l, Null, t.val)>>)
       /\ (result'.op = "startSimulatedNotifications.tick"
            => \A t \in replayTimers : t.l \notin Invoked')]_vars

\* the monitor subscriptions registered for key
MonitorSubs(sb, key) == {i \in DOMAIN sb : sb[i].kind = "monitor" /\ sb[i].key = key}

\* C20: when remove() has been called on every monitor subscription registered
\* for a key, in whatever order, the key has no monitor listener registered
\* and no notification timer armed.
C20_AllRemovedLeavesNothing ==
    [][(/\ result'.op = "remove"
        /\ subs[result'.arg].kind = "monitor"
        /\ \A i \in MonitorSubs(subs', subs[result'.arg].key) : subs'[i].removed)
         => /\ ~Has(monitoredCharacteristics', subs[result'.arg].key)
            /\ ~Has(intervalTimers', subs[result'.arg].key)
            /\ ~Has(notificationIntervals', subs[result'.arg].key)]_vars

\* C21: whatever startSimulatedNotifications and stopSimulatedNotifications
\* calls were made, a key has at most one notification timer armed, the one
\* whose handle the Map holds, and a tick calls each listener of the key at
\* most once.
C21_OneTimerPerKey ==
    [][/\ DOMAIN intervalTimers' = DOMAIN notificationIntervals'
       /\ \A k \in DOMAIN intervalTimers' : intervalTimers'[k] = 1
       /\ (result'.op = "startSimulatedNotifications.tick"
            => \A i \in DOMAIN subs :
                   Cardinality({j \in DOMAIN fired' : fired'[j].l = i}) <= 1)]_vars

\* a tick reached two listeners of a key while both keys had a timer armed
C21_Witness ==
    /\ result.op = "startSimulatedNotifications.tick"
    /\ Len(fired) = 2
    /\ DOMAIN intervalTimers = {getCharacteristicKey("d1", "s", c) : c \in NotifyChars}

\* C22: setCharacteristicValue stores the value; with notify it calls each
\* monitor listener registered for the key once with the new value, before it
\* returns, and no listener of another key; without notify it calls none.
C22_SetValueStoresAndNotifies ==
    [][result'.op = "setCharacteristicValue"
         => /\ Has(characteristicValues', result'.arg)
            /\ characteristicValues'[result'.arg] = result'.value
            /\ fired' = IF result'.notify
                        THEN Calls("monitor",
                                   ListenersOf(monitoredCharacteristics, arrays, result'.arg),
                                   Null, result'.value)
                        ELSE <<>>]_vars

\* C23: when clearAllSimulatedErrors returns, no error record is left on any
\* surface: scan, connection, disconnection, read, either write, descriptor.
C23_ClearAllLeavesNoError ==
    [][result'.op = "clearAllSimulatedErrors"
         => /\ scanErrorSimulation' = Null
            /\ connectionErrors' = EmptyMap
            /\ disconnectionErrors' = EmptyMap
            /\ readErrors' = EmptyMap
            /\ writeWithResponseErrors' = EmptyMap
            /\ writeWithoutResponseErrors' = EmptyMap
            /\ descriptorErrors' = EmptyMap]_vars

\* the identifiers the snapshot stored under the manager's identifier lists
SnapshotIds(store) ==
    IF Has(store, restoreStateIdentifier)
    THEN [i \in DOMAIN store[restoreStateIdentifier] |-> store[restoreStateIdentifier][i].id]
    ELSE <<>>

\* C24: with a restoration identifier, every step that changes the connected
\* set leaves under the identifier a snapshot that lists exactly the devices
\* then connected.
C24_SnapshotListsConnected ==
    [][restoreStateIdentifier # Null /\ connectedDevices' # connectedDevices
         => /\ Has(restoredStateStore', restoreStateIdentifier)
            /\ SnapshotIds(restoredStateStore') = connectedDevices']_vars

\* the calls of the restoration callback among the calls the last operation made
RestoreCalls(calls) == SelectSeq(calls, LAMBDA call : call.kind = "restore")

\* C25: a manager built with a restoration identifier and a restoration
\* callback calls the callback once: not in the constructor but in a later
\* step of its own, which comes, with the snapshot then stored under the
\* identifier or null when there is none; nothing calls it a second time, and
\* a manager built without either option never calls it.
C25_RestoreCallbackOnce ==
    /\ (restoreImmediate <=> (restoreStateIdentifier # Null /\ restoreStateFunction))
    /\ fired = <<>>
    /\ [][/\ (restoreImmediate' => restoreImmediate)
          /\ (RestoreCalls(fired') # <<>>
               => /\ result'.op = "constructor.setImmediate"
                  /\ restoreImmediate /\ ~restoreImmediate'
                  /\ restoreStateFunction
                  /\ fired' = <<Call("restore", 0, Null,
                                    IF Has(restoredStateStore, restoreStateIdentifier)
                                    THEN restoredStateStore[restoreStateIdentifier]
                                    ELSE Null)>>)]_vars
    /\ <>(~restoreImmediate)

\* the callback was called with a snapshot that names a device connected by
\* this manager before the callback was due
C25_Witness ==
    /\ result.op = "constructor.setImmediate"
    /\ Len(fired) = 1
    /\ Has(restoredStateStore, restoreStateIdentifier)
    /\ fired[1].val = restoredStateStore[restoreStateIdentifier]
    /\ Len(fired[1].val) = 1
    /\ fired[1].val[1].id = "d1"

\* the connection listeners registered for the connected devices
ListenersOfConnected ==
    UNION {Range(ListenersOf(connectionListeners, arrays, d)) : d \in Range(connectedDevices)}

\* C26: when destroy returns no device is connected, and each connection
\* listener registered for a device that was connected has been called once,
\* with the error 'Manager destroyed'.
C26_DestroyDisconnectsAll ==
    [][result'.op = "destroy"
         => /\ connectedDevices' = <<>>
            /\ \A l \in ListenersOfConnected :
                   Cardinality({j \in DOMAIN fired' : fired'[j].l = l}) = 1
            /\ \A j \in DOMAIN fired' :
                   /\ fired'[j].l \in ListenersOfConnected
                   /\ fired'[j].kind = "connection"
                   /\ fired'[j].err = "Manager destroyed"]_vars

\* destroy disconnected two devices, each with a connection listener
C26_Witness ==
    /\ result.op = "destroy"
    /\ Len(fired) = 2
    /\ {fired[1].val, fired[2].val} = {"d1", "d2"}
    /\ fired[1].l # fired[2].l

\* C27: when destroy returns no timer is armed, neither the scan tick nor a
\* notification tick nor a replay, and no listener registered before destroy
\* is called by any later step.
C27_NothingAfterDestroy ==
    [][/\ (result'.op = "destroy"
            => /\ scanInterval' = <<>>
               /\ intervalTimers' = EmptyMap
               /\ replayTimers' = {})
       /\ (result'.op # "destroy"
            => \A j \in DOMAIN fired' : fired'[j].l \notin registeredAtDestroy)]_vars

\* the device a step disconnected: a cancelDeviceConnection that resolved, or
\* a simulateDeviceDisconnection of a connected device; Null otherwise
Disconnected(before, r) ==
    IF r.op = "cancelDeviceConnection" /\ r.status = "resolved" THEN r.arg
    ELSE IF r.op = "simulateDeviceDisconnection" /\ SetHas(before, r.arg.d) THEN r.arg.d
    ELSE Null

\* C28: a disconnection takes the device out of the connected set and its
\* entry out of the discovered-services cache and leaves the rest alone: the
\* registry and the service metadata, the other devices' connections and
\* cache entries, the characteristic and descriptor values, the error and
\* delay records and the MTU caps.
C28_DisconnectionFrame ==
    [][Disconnected(connectedDevices, result') # Null
         => LET d == Disconnected(connectedDevices, result')
            IN  /\ connectedDevices' = SetDelete(connectedDevices, d)
                /\ discoveredServices' = Delete(discoveredServices, d)
                /\ UNCHANGED <<registryVars, injectionVars, characteristicValues,
                               connectionDelays, connectionErrors, disconnectionErrors,
                               deviceMaxMTUs>>]_vars

\* d1 was disconnected with everything configured while d2 stayed connected
\* and discovered
C28_Witness ==
    /\ result.op = "cancelDeviceConnection"
    /\ result.status = "resolved"
    /\ result.arg = "d1"
    /\ DevHas(discoveredDevices, "d1")
    /\ Has(serviceMetadata, "d1")
    /\ Has(deviceMaxMTUs, "d1")
    /\ characteristicValues # EmptyMap
    /\ descriptorValues # EmptyMap
    /\ readErrors # EmptyMap
    /\ writeWithResponseDelays # EmptyMap
    /\ connectedDevices = <<"d2">>
    /\ Has(discoveredServices, "d2")

\* the calls of state listeners among the calls the last operation made
StateCalls(calls) == SelectSeq(calls, LAMBDA call : call.kind = "state")

\* the state listeners whose subscription has not been removed, in the order
\* of their registration
LiveStateListeners ==
    SelectSeq([i \in DOMAIN subs |-> i],
              LAMBDA i : subs[i].kind = "state" /\ ~subs[i].removed)

\* C29: every setState calls each state listener that is registered once with
\* the new state, whether or not the state changed; onStateChange calls the
\* new listener once with the current state, before it returns, when asked to
\* and nobody otherwise; nothing else calls a state listener.
C29_StateListenersFollowSetState ==
    [][/\ stateListeners = LiveStateListeners
       /\ (result'.op = "setState"
            => /\ currentState' = result'.arg
               /\ StateCalls(fired') = Calls("state", LiveStateListeners, Null, result'.arg))
       /\ (result'.op = "onStateChange"
            => fired' = IF result'.arg THEN <<Call("state", Len(subs'), Null, currentState)>>
                        ELSE <<>>)
       /\ (result'.op \notin {"setState", "onStateChange"} => StateCalls(fired') = <<>>)]_vars

\* a setState reached the one state listener left after another had been
\* released
C29_Witness ==
    /\ result.op = "setState"
    /\ result.arg = "Resetting"
    /\ Len(StateCalls(fired)) = 1
    /\ \E i \in DOMAIN subs : subs[i].kind = "state" /\ subs[i].removed

\* how the suspended read or write p settles, by what its call read
SettlementOf(p) ==
    IF p.op = "readCharacteristicForDevice"
    THEN ReadSettled(p.op \o ".resume", p.key,
                     IF p.err # Null THEN "rejected" ELSE "resolved",
                     p.err, p.val, p.descriptors)
    ELSE Settled(p.op \o ".resume", p.key, IF p.err # Null THEN "rejected" ELSE "resolved",
                 p.err, p.val)

\* C30: a connectToDevice, a read or a write that has started waiting on its
\* delay settles in the end: the connection resolves, the read or write
\* resolves or rejects with the error that was injected when it was called.
\* No other step takes a waiting operation away, whether the device is
\* disconnected or deregistered, the adapter changes state, the injected error
\* is cleared or the scan is stopped.  In the formula: the waiting operations
\* are those listed; one stops waiting only in a step that settles it as its
\* call decided; and none waits for ever.
C30_SuspendedOperationsSettle ==
    /\ [](pendingOps \subseteq SuspendedOperations /\ pendingConnects \subseteq SuspendedConnects)
    /\ [][/\ \A p \in pendingOps : p \notin pendingOps' => result' = SettlementOf(p)
          /\ \A q \in pendingConnects :
                q \notin pendingConnects'
                    => result' = MTUOutcome("connectToDevice.resume", q.d, q.requestMTU)]_vars
    /\ \A p \in SuspendedOperations : []<>(p \notin pendingOps)
    /\ \A q \in SuspendedConnects : []<>(q \notin pendingConnects)

\* a write that was called with an error injected rejected with that error
\* after the error had been cleared during its delay
C30_Witness ==
    /\ result.op = "writeCharacteristicWithResponseForDevice.resume"
    /\ result.status = "rejected"
    /\ result.err = "e2"
    /\ ~Has(writeWithResponseErrors, result.arg)
    /\ ~isDeviceConnected("d1")

\* C31: setDiscoveryInterval called while a scan is active delivers every
\* registered device once more, in order, to the listener of that scan before
\* it returns and leaves one scan timer armed, at the new period, with the scan
\* still active; called while no scan is active it delivers nothing and arms
\* no timer.  Either way the new period is kept for later scans.
C31_SetDiscoveryIntervalRestarts ==
    [][result'.op = "setDiscoveryInterval"
         => /\ discoveryInterval' = result'.arg
            /\ IF isScanning
               THEN /\ fired' = [i \in DOMAIN discoveredDevices |->
                                    Call("scan", scanListener, Null, discoveredDevices[i].id)]
                    /\ scanInterval' = <<result'.arg>>
                    /\ isScanning' /\ scanListener' = scanListener
               ELSE /\ fired' = <<>>
                    /\ scanInterval' = <<>>
                    /\ ~isScanning']_vars

\* a scan started at the default period was restarted at 100 ms and delivered
\* both registered devices again
C31_Witness ==
    /\ result.op = "setDiscoveryInterval"
    /\ result.arg = 100
    /\ isScanning
    /\ scanInterval = <<100>>
    /\ Len(fired) = 2
    /\ fired[1].l = scanListener

\* C32: reads and writes of a characteristic take effect when they are called.
\* The store holds the value of the latest write or set call from the moment
\* of that call, a write waiting on its delay included; a read that is not
\* turned away takes the value of the latest write or set called before it,
\* and resolves with that value whatever is stored while it waits.
C32_ReadsSeeLatestCalledValue ==
    [][/\ \A k \in DOMAIN latestCalled' :
            Has(characteristicValues', k) /\ characteristicValues'[k] = latestCalled'[k]
       /\ ((/\ result'.op = "readCharacteristicForDevice"
            /\ result'.status \in {"pending", "resolved"}
            /\ ~Has(readErrors, result'.arg)
            /\ Has(latestCalled, result'.arg))
             => result'.val = latestCalled[result'.arg])
       /\ \A p \in pendingOps :
            (p.op = "readCharacteristicForDevice" /\ p \notin pendingOps')
                => (result'.status = "resolved" /\ result'.val = p.val)]_vars

\* C33: while the adapter is PoweredOff no device is in the connected set,
\* whatever the interleaving of setState with connectToDevice, a connectToDevice
\* waiting on its connection delay included.
C33_PoweredOffMeansNoConnection ==
    currentState = "PoweredOff" => connectedDevices = <<>>

\* C34: the discovered-services cache holds an entry only for devices that
\* are connected, whatever the interleaving of a discovery with a disconnection
\* of the same device, a disconnection made while the discovery awaits the
\* services of the device included.
C34_CacheOnlyForConnected ==
    \A d \in DOMAIN discoveredServices : isDeviceConnected(d)

\* C35: the scan tick timer is armed exactly when the manager is scanning,
\* also when the scan listener calls stopDeviceScan while the initial burst of
\* startDeviceScan or of setDiscoveryInterval is being delivered to it.
C35_TimerArmedIffScanning ==
    (scanInterval # <<>>) <=> isScanning

\* C36: whenever a scan is active the adapter state is PoweredOn, after any
\* sequence of startDeviceScan, stopDeviceScan, setDiscoveryInterval and
\* setState calls.
C36_ScanningMeansPoweredOn ==
    isScanning => currentState = "PoweredOn"

\* C37: every device in the connected set is in the device registry, after
\* any sequence of registrations, deregistrations, connections (with or
\* without delay) and disconnections.
C37_ConnectedAreRegistered ==
    \A i \in DOMAIN connectedDevices : DevHas(discoveredDevices, connectedDevices[i])

\* C38: for every registered device the service UUIDs that a discovery stores
\* in the discovered cache are exactly the service UUIDs for which
\* characteristicsForService succeeds, also after the device id has been
\* registered again with another service list or with none.
C38_DiscoveryMatchesMetadata ==
    \A d \in DevIds(discoveredDevices) :
        Range(ProjectedServices(d))
            = {s \in ServiceUUIDs : CharacteristicsForServiceError(s, d) = Null}

\* C39: the values a monitor listener is given follow the order in which they
\* were stored: a listener that has been given a value is not given, then or
\* later, a value that was stored before it.
C39_DeliveriesFollowStoreOrder ==
    [][\A j \in DOMAIN MonitorCalls(fired') :
          LET call == MonitorCalls(fired')[j]
          IN  Has(lastDelivered, call.l)
                => Place(storeOrder', call.val) >= lastDelivered[call.l]]_vars

\* C40: for a connected device and a descriptor its metadata declares, a
\* readDescriptorForCharacteristic that resolves gives the value that the entry
\* of that descriptor has in the descriptors list of a readCharacteristicForDevice
\* made in the same state, and a read of the characteristic that resolves lists
\* for each declared descriptor the value a read of the descriptor gives.
C40_DescriptorReadsAgree ==
    [][/\ \A j \in DOMAIN CharacteristicDescriptors("h", "c") :
            (/\ result'.op = "readDescriptorForCharacteristic"
             /\ result'.status = "resolved"
             /\ result'.arg = getDescriptorKey("d1", "h", "c",
                                               CharacteristicDescriptors("h", "c")[j].uuid)
             /\ DeclaredDescriptors("d1", "h", "c") # NoDescriptors)
                => result'.val = ReadDescriptors("d1", "h", "c")[j].value
       /\ (/\ result'.op = "readCharacteristicForDevice"
           /\ result'.status = "resolved")
              => \A j \in DOMAIN result'.descriptors :
                    result'.descriptors[j].value
                        = DescriptorValue(getDescriptorKey("d1", "h", "c",
                                                           result'.descriptors[j].uuid))]_vars

====
